---- MODULE Spec2Model ----
(***************************************************************************)
(* Real-time audio watermark pipeline of audiowmark: the payload codec,    *)
(* the FrameBuffer FIFO, the look-ahead Limiter, the block generator       *)
(* SimpleWatermarkGen, the embedder facade RealtimeWatermarker, the        *)
(* detectors RealtimeDetector and SimpleDetector, and the web application: *)
(* its handle discipline, the message its sender embeds and its            *)
(* AudioWorklet processors.                                                *)
(*                                                                         *)
(* Characters are their ASCII codes, strings are sequences of codes.       *)
(* Float samples and gains are fixed-point integers: Unit stands for 1.0.  *)
(* The Limiter is Limiter::Limiter (int sample_rate) and Limiter::process; *)
(* Impl's set_block_size_ms and set_ceiling calls have no code behind them *)
(* in the sources and change nothing here.                                 *)
(***************************************************************************)
EXTENDS Integers, Sequences, FiniteSets, TLC

VARIABLES
  cIn, cPc, cOut,                       \* codec: input string, operation applied, its result
  fb, fbN, fbPushed, fbPopped, fbLast,  \* a FrameBuffer under test and its call history
  limiter, limIn, limOut, limLast,      \* a Limiter under test and its call history
  config, bitvec, initialized,          \* RealtimeWatermarker::Impl
  frame_buffer, output_buffer, frame_count, wm_limiter,
  ret, hist,                            \* last ProcessFrame call and the stream so far
  det, detLast, detHist, audio,         \* a detector, its last call and history, the audio thread
  app, appLog,                          \* the web application and its last call into the module
  sender,                               \* the sender of the web application and its message
  processor                             \* an AudioWorklet processor and its message port

codecVars == <<cIn, cPc, cOut>>
fbVars    == <<fb, fbN, fbPushed, fbPopped, fbLast>>
limVars   == <<limiter, limIn, limOut, limLast>>
embVars   == <<config, bitvec, initialized, frame_buffer, output_buffer,
               frame_count, wm_limiter, ret, hist>>
detVars   == <<det, detLast, detHist, audio>>
appVars   == <<app, appLog, sender, processor>>
vars      == <<codecVars, fbVars, limVars, embVars, detVars, appVars>>

----------------------------------------------------------------------------
(* Bounds of the model *)

MaxStrLen == 3      \* longest codec input string
MaxBytes  == 2      \* bytes of the longest well-formed payload given to the codec
MaxChunk  == 2      \* longest chunk pushed to a FrameBuffer / Limiter in one call
MaxTotal  == 5      \* most samples fed to a FrameBuffer / Limiter under test
MaxFrame  == 2      \* largest caller frame_size handed to ProcessFrame
MaxCalls  == 4      \* ProcessFrame calls per embedder
MaxDetCalls == 5    \* calls made on one detector
MaxBlocks == 5      \* blocks the audio thread analyses while a poller runs
Unit      == 8      \* fixed-point value of the float 1.0

----------------------------------------------------------------------------
(* Small helpers *)

Abs(x) == IF x < 0 THEN -x ELSE x

Max(a, b) == IF a >= b THEN a ELSE b

\* C++ division of floats modelled in fixed point, rounding toward zero
DivT(a, b) == IF a >= 0 THEN a \div b ELSE -((-a) \div b)

Take(s, n) == SubSeq(s, 1, n)

Drop(s, n) == SubSeq(s, n + 1, Len(s))

IsPrefix(p, s) == Len(p) <= Len(s) /\ Take(s, Len(p)) = p

Zeros(n) == [i \in 1..n |-> 0]

SeqsUpTo(S, n) == UNION {[1..k -> S] : k \in 0..n}

----------------------------------------------------------------------------
(* PayloadCodec: characters of the C library *)

\* ' ', '+', '-', '0', '1', '9', 'A', 'F', 'G', 'a', 'f', 'g', 'x', '~'
Alphabet == {32, 43, 45, 48, 49, 57, 65, 70, 71, 97, 102, 103, 120, 126}

Printable == 32..126

IsPrintable(c) == c \in Printable

IsSpace(c) == c = 32 \/ (c >= 9 /\ c <= 13)

IsXDigit(c) == (c >= 48 /\ c <= 57) \/ (c >= 65 /\ c <= 70) \/ (c >= 97 /\ c <= 102)

HexVal(c) == IF c <= 57 THEN c - 48 ELSE IF c <= 70 THEN c - 55 ELSE c - 87

\* printf("%x") of one nibble
HexChar(d) == IF d < 10 THEN 48 + d ELSE 87 + d

RECURSIVE SkipSpaces(_)
SkipSpaces(s) == IF s # <<>> /\ IsSpace(Head(s)) THEN SkipSpaces(Tail(s)) ELSE s

RECURSIVE ParseDigits(_, _)
ParseDigits(s, acc) ==
  IF s # <<>> /\ IsXDigit(Head(s))
  THEN ParseDigits(Tail(s), acc * 16 + HexVal(Head(s)))
  ELSE acc

\* strtol's subject sequence in base 16: white space, a sign, "0x", digits
SkipSign(s) == IF s # <<>> /\ Head(s) \in {43, 45} THEN Tail(s) ELSE s

SkipPrefix(s) ==
  IF Len(s) >= 3 /\ s[1] = 48 /\ s[2] \in {88, 120} /\ IsXDigit(s[3])
  THEN Tail(Tail(s)) ELSE s

\* std::stoi(str, nullptr, 16): ok = FALSE is std::invalid_argument thrown
Stoi16(str) ==
  LET a   == SkipSpaces(str)
      neg == a # <<>> /\ Head(a) = 45
      c   == SkipPrefix(SkipSign(a))
      v   == ParseDigits(c, 0)
  IN [ok |-> c # <<>> /\ IsXDigit(Head(c)), val |-> IF neg THEN -v ELSE v]

\* sscanf(buf, "%x", &v) == 1: as strtol, but "0x" with no digit after it
\* is a matching failure
Sscanf16(str) ==
  LET a   == SkipSpaces(str)
      neg == a # <<>> /\ Head(a) = 45
      b   == SkipSign(a)
      c   == SkipPrefix(b)
      bad == Len(b) >= 2 /\ b[1] = 48 /\ b[2] \in {88, 120} /\ c = b
      v   == ParseDigits(c, 0)
  IN [ok |-> c # <<>> /\ IsXDigit(Head(c)) /\ ~bad, val |-> IF neg THEN -v ELSE v]

\* (byte_value >> bit) & 1 on a two's complement int, bit in 0..7
BitOf(byte_value, bit) == ((byte_value % 256) \div (2 ^ bit)) % 2

\* the loop run from bit 0 up to bit 7
ByteBitsLsbFirst(byte_value) == [k \in 1..8 |-> BitOf(byte_value, k - 1)]

\* for (bit = 7; bit >= 0; bit--) push_back((byte_value >> bit) & 1)
ByteBits(byte_value) == [k \in 1..8 |-> BitOf(byte_value, 8 - k)]

\* static_cast<char>(int), the char kept as its unsigned code
ToChar(v) == v % 256

RECURSIVE parse_payload_from(_, _, _)
parse_payload_from(hex, i, bitvec_) ==
  IF i >= Len(hex) THEN bitvec_
  ELSE IF i + 1 >= Len(hex) THEN <<>>
  ELSE LET r == Stoi16(SubSeq(hex, i + 1, i + 2))
       IN IF ~r.ok THEN <<>>
          ELSE parse_payload_from(hex, i + 2, bitvec_ \o ByteBits(r.val))

\* parse_payload: the bit vector, empty on failure
parse_payload(hex) == IF hex = <<>> THEN <<>> ELSE parse_payload_from(hex, 0, <<>>)

RECURSIVE TextToHexLowNibbleFirst(_)
TextToHexLowNibbleFirst(text) ==
  IF text = <<>> THEN <<>>
  ELSE <<HexChar(Head(text) % 16), HexChar(Head(text) \div 16)>>
         \o TextToHexLowNibbleFirst(Tail(text))

RECURSIVE TextToHex(_)
TextToHex(text) ==
  IF text = <<>> THEN <<>>
  ELSE <<HexChar(Head(text) \div 16), HexChar(Head(text) % 16)>> \o TextToHex(Tail(text))

RECURSIVE HexToTextFrom(_, _, _)
HexToTextFrom(hex, i, text) ==
  IF i >= Len(hex) THEN text
  ELSE IF i + 1 < Len(hex)
       THEN LET r == Stoi16(SubSeq(hex, i + 1, i + 2))
            IN IF ~r.ok THEN <<>>
               ELSE HexToTextFrom(hex, i + 2, Append(text, ToChar(r.val)))
       ELSE HexToTextFrom(hex, i + 2, text)

HexToText(hex) == HexToTextFrom(hex, 0, <<>>)

\* std::isxdigit over every character
AllXDigit(hex) == \A k \in 1..Len(hex) : IsXDigit(hex[k])

IsValidHexMessageNoLength(hex) == hex # <<>> /\ AllXDigit(hex)

IsValidHexMessage(hex) ==
  IF hex = <<>> \/ Len(hex) % 2 # 0 THEN FALSE ELSE AllXDigit(hex)

(* C strings returned through char*: a null pointer or the bytes up to NUL *)
NullPtr == [null |-> TRUE, str |-> <<>>]

RECURSIVE UpToNul(_)
UpToNul(s) == IF s = <<>> \/ Head(s) = 0 THEN <<>> ELSE <<Head(s)>> \o UpToNul(Tail(s))

CStr(s) == [null |-> FALSE, str |-> UpToNul(s)]

\* exports of the library wrapper
text_to_hex(p) == IF p.null THEN NullPtr ELSE CStr(TextToHex(p.str))

hex_to_text(p) == IF p.null THEN NullPtr ELSE CStr(HexToText(p.str))

\* exports of the simple module
text_to_hex_simple(p) ==
  IF p.null THEN NullPtr
  ELSE IF Len(p.str) = 0 THEN NullPtr
  ELSE CStr(TextToHex(p.str))

RECURSIVE hex_to_text_simple_from(_, _, _)
hex_to_text_simple_from(hex, i, result) ==
  IF i >= Len(hex) \div 2 THEN CStr(result)
  ELSE LET r == Sscanf16(SubSeq(hex, 2 * i + 1, 2 * i + 2))
       IN IF r.ok THEN hex_to_text_simple_from(hex, i + 1, Append(result, ToChar(r.val)))
          ELSE NullPtr

hex_to_text_simple(p) ==
  IF p.null THEN NullPtr
  ELSE IF Len(p.str) = 0 \/ Len(p.str) % 2 # 0 THEN NullPtr
  ELSE hex_to_text_simple_from(p.str, 0, <<>>)

(* Construction of an embedder through the exported functions: the handle
   returned (null or not) and the payload bits the embedder behind it holds *)

\* watermarker_create: the watermarker is deleted when it is not initialized
watermarker_create(message_hex) ==
  LET bits == parse_payload(message_hex)
  IN [null |-> bits = <<>>, bits |-> bits]

\* SimpleWatermarker::hex_to_bits: a pair std::stoi rejects ends the loop
RECURSIVE hex_to_bits_from(_, _, _)
hex_to_bits_from(hex, i, bits) ==
  IF i >= Len(hex) THEN bits
  ELSE IF i + 1 < Len(hex)
       THEN LET r == Stoi16(SubSeq(hex, i + 1, i + 2))
            IN IF ~r.ok THEN bits
               ELSE hex_to_bits_from(hex, i + 2, bits \o ByteBits(r.val))
       ELSE hex_to_bits_from(hex, i + 2, bits)

hex_to_bits(hex) == hex_to_bits_from(hex, 0, <<>>)

\* create_simple_watermarker: the constructor only stores message_hex
create_simple_watermarker(message_hex) ==
  [null |-> FALSE, bits |-> hex_to_bits(message_hex)]

----------------------------------------------------------------------------
(* FrameBuffer: std::queue<float> with a channel count *)

push_samples_front(buffer, samples) == samples \o buffer

push_samples_twice(buffer, samples) == buffer \o samples \o samples

push_samples(buffer, samples) == buffer \o samples

has_frame_more(buffer, frame_size, channels) == Len(buffer) > frame_size * channels

has_frame(buffer, frame_size, channels) == Len(buffer) >= frame_size * channels

pop_frame_per_channel(buffer, frame_size, channels) ==
  IF Len(buffer) < frame_size
  THEN [frame |-> <<>>, buffer |-> buffer]
  ELSE [frame |-> Take(buffer, frame_size), buffer |-> Drop(buffer, frame_size)]

\* pop_frame: the popped frame and the buffer left
pop_frame(buffer, frame_size, channels) ==
  LET samples_needed == frame_size * channels
  IN IF Len(buffer) < samples_needed
     THEN [frame |-> <<>>, buffer |-> buffer]
     ELSE [frame |-> Take(buffer, samples_needed), buffer |-> Drop(buffer, samples_needed)]

----------------------------------------------------------------------------
(* Limiter *)

\* the sample values fed to the components under test: 0.5, 2.0 and -3.0
SampleVals == {Unit \div 2, 2 * Unit, -3 * Unit}

\* sample rates giving look_ahead 1, 2 and 3
SampleRates == {350, 450, 700}

\* look_ahead = sample_rate * 0.005, converted to uint
LookAhead(sample_rate) == (sample_rate * 5) \div 1000

\* decay_coeff = exp (log (0.5) / (sample_rate * 0.05)) in thousandths,
\* by the series 1 - x + x^2/2 with x = ln(2) * 20 / sample_rate
DecayCoeff(sample_rate) ==
  1000 - (13863 \div sample_rate) + (96090 \div (sample_rate * sample_rate))

\* the member initialiser of maximum in the class declaration: 1.0
InitialMaximum == Unit

Limiter_new(sample_rate) ==
  [look_ahead  |-> LookAhead(sample_rate),
   decay_coeff |-> DecayCoeff(sample_rate),
   buffer      |-> <<>>,
   max_buffer  |-> <<>>,
   maximum     |-> InitialMaximum]

\* the guard of the backward broadcast, i and j counted from 0
BroadcastGuard(i, j) == i - j > 0

\* fabs (buffer[i]) * (1 - alpha) + 1 * alpha with alpha = j / look_ahead
Ramp(peak, j, look_ahead) == (peak * (look_ahead - j) + Unit * j) \div look_ahead

MaxOfSet(S) == CHOOSE x \in S : \A y \in S : x >= y

\* max_buffer after the broadcast loops; p and q are 1-based positions
Broadcast(buffer, max_buffer, look_ahead) ==
  [p \in 1..Len(buffer) |->
     MaxOfSet({max_buffer[p]} \cup
              {Ramp(Abs(buffer[q]), q - p, look_ahead) :
                 q \in {r \in p..Len(buffer) :
                          /\ r - p < look_ahead
                          /\ Abs(buffer[r]) > Unit
                          /\ BroadcastGuard(r - 1, r - p)}})]

Limiter_todo_early(size, look_ahead) ==
  IF size >= look_ahead THEN size - look_ahead + 1 ELSE 0

\* the number of samples ready to emit
Limiter_todo(size, look_ahead) ==
  IF size > look_ahead THEN size - look_ahead ELSE 0

\* the decay step alone, without `if (maximum < max_buffer[i])`
SmoothNoClamp(maximum, mb, decay_coeff) ==
  (maximum * decay_coeff + mb * (1000 - decay_coeff)) \div 1000

\* maximum after one sample with ceiling mb
Smooth(maximum, mb, decay_coeff) ==
  Max((maximum * decay_coeff + mb * (1000 - decay_coeff)) \div 1000, mb)

\* the output loop; gains records the value of maximum each sample was
\* divided by
RECURSIVE Emit(_, _, _, _, _, _, _, _)
Emit(buffer, max_buffer, decay_coeff, todo, i, maximum, out, gains) ==
  IF i > todo THEN [maximum |-> maximum, out |-> out, gains |-> gains]
  ELSE LET m == Smooth(maximum, max_buffer[i], decay_coeff)
       IN Emit(buffer, max_buffer, decay_coeff, todo, i + 1, m,
               Append(out, DivT(buffer[i] * Unit, m)), Append(gains, m))

\* Limiter::process: the limiter after the call and the samples returned
Limiter_process(l, samples) ==
  LET buf  == l.buffer \o samples
      mb   == Broadcast(buf, l.max_buffer \o [k \in 1..Len(samples) |-> Unit],
                        l.look_ahead)
      todo == Limiter_todo(Len(buf), l.look_ahead)
      e    == Emit(buf, mb, l.decay_coeff, todo, 1, l.maximum, <<>>, <<>>)
  IN [limiter |-> [l EXCEPT !.buffer = Drop(buf, todo),
                            !.max_buffer = Drop(mb, todo),
                            !.maximum = e.maximum],
      out |-> e.out, gains |-> e.gains, ceilings |-> Take(mb, todo)]

----------------------------------------------------------------------------
(* SimpleWatermarkGen and RealtimeWatermarker::Impl *)

\* Params::frame_size, the internal block size (1024 in the program), scaled
\* down to keep the blocks small
ParamsFrameSize == 2

\* Params::frames_per_bit, the number of blocks one payload bit is held
ParamsFramesPerBit == 2

\* sin of x / period of a full turn in fixed point, piecewise linear
SinQ(x, period) ==
  LET q == 4 * x
  IN IF q <= period THEN (Unit * q) \div period
     ELSE IF q <= 3 * period THEN DivT(Unit * (2 * period - q), period)
     ELSE DivT(Unit * (q - 4 * period), period)

\* phase_step = 2 pi * freq / sample_rate, in turns of 1 / sample_rate
PhaseStep(bit_value, cfg) == (1000 + bit_value * 500) % cfg.sample_rate

\* phase of sample n of block frame_count, reduced to one turn
Phase(count, n, bit_value, cfg) ==
  ((count * ParamsFrameSize + n) * (1000 + bit_value * 500)) % cfg.sample_rate

\* strength * sin (phase) for sample n of block frame_count
Watermark(count, n, bit_value, cfg) ==
  DivT(cfg.strength * SinQ(Phase(count, n, bit_value, cfg), cfg.sample_rate), Unit)

BitIndexNoHold(count, bits) == count % Len(bits)

BitIndex(count, bits) == (count \div ParamsFramesPerBit) % Len(bits)

\* SimpleWatermarkGen::process_frame: the output block and frame_count after
wm_gen_process_frame(count, bits, cfg, input_samples) ==
  IF Len(input_samples) # ParamsFrameSize * cfg.channels
  THEN [out |-> input_samples, frame_count |-> count]
  ELSE LET bit_value == bits[BitIndex(count, bits) + 1]
       IN [out |-> [k \in 1..Len(input_samples) |->
                      input_samples[k]
                        + Watermark(count, (k - 1) \div cfg.channels, bit_value, cfg)],
           frame_count |-> count + 1]

\* the mutable part of Impl as one record
EmbState == [frame_buffer  |-> frame_buffer,
             output_buffer |-> output_buffer,
             frame_count   |-> frame_count,
             limiter       |-> wm_limiter]

\* the while loop of Impl::process_frame
RECURSIVE ProcessBlocks(_)
ProcessBlocks(e) ==
  IF has_frame(e.frame_buffer, ParamsFrameSize, config.channels)
  THEN LET p == pop_frame(e.frame_buffer, ParamsFrameSize, config.channels)
           w == wm_gen_process_frame(e.frame_count, bitvec, config, p.frame)
           l == Limiter_process(e.limiter, w.out)
       IN ProcessBlocks([frame_buffer  |-> p.buffer,
                         output_buffer |-> push_samples(e.output_buffer, l.out),
                         frame_count   |-> w.frame_count,
                         limiter       |-> l.limiter])
  ELSE e

\* Impl::process_frame; staged is the output buffer before the final pop
Impl_process_frame(e, input_samples, frame_size) ==
  IF ~initialized
  THEN [e |-> e, out |-> input_samples, kind |-> "passthrough", staged |-> <<>>]
  ELSE LET e1 == ProcessBlocks([e EXCEPT !.frame_buffer = push_samples(@, input_samples)])
       IN IF has_frame(e1.output_buffer, frame_size, config.channels)
          THEN LET p == pop_frame(e1.output_buffer, frame_size, config.channels)
               IN [e |-> [e1 EXCEPT !.output_buffer = p.buffer], out |-> p.frame,
                   kind |-> "popped", staged |-> e1.output_buffer]
          ELSE [e |-> e1, out |-> Zeros(Len(input_samples)),
                kind |-> "zeros", staged |-> e1.output_buffer]

ProcessFrameUnchecked(e, input_samples, frame_size) ==
  Impl_process_frame(e, input_samples, frame_size)

\* RealtimeWatermarker::ProcessFrame
ProcessFrame(e, input_samples, frame_size) ==
  IF Len(input_samples) # frame_size * config.channels
  THEN [e |-> e, out |-> input_samples, kind |-> "mismatch", staged |-> <<>>]
  ELSE Impl_process_frame(e, input_samples, frame_size)

Impl_reset_keep_count(e) == [e EXCEPT !.frame_buffer = <<>>, !.output_buffer = <<>>]

\* Impl::reset
Impl_reset(e) == [e EXCEPT !.frame_buffer = <<>>, !.output_buffer = <<>>, !.frame_count = 0]

----------------------------------------------------------------------------
(* RealtimeDetector::Impl and SimpleDetector

   A detector is one record: kind tells the class.  detection_scores is
   <<scores of bit 0, scores of bit 1>> (frequency_bins of SimpleDetector) and
   frames_processed the block counter (frame_count of SimpleDetector).
   FFTAnalyzer::run_fft is not part of the sources: the magnitudes of the bins
   of a block are an input of the analysis. *)

\* detection_window_frames (100 in the program), scaled down
DetectionWindowFrames == 4

\* analysis_window of SimpleDetector (50 in the program), scaled down
AnalysisWindow == 4

\* the number of bins run_fft returns for a block
FftSize == 3

Window(d) == IF d.kind = "RealtimeDetector" THEN DetectionWindowFrames ELSE AnalysisWindow

RECURSIVE SumSeq(_)
SumSeq(q) == IF q = <<>> THEN 0 ELSE Head(q) + SumSeq(Tail(q))

Min(a, b) == IF a <= b THEN a ELSE b

\* "48656c6c6f20576f726c6421", "54657374" and "556e6b6e6f776e"
HelloWorldHex ==
  <<52, 56, 54, 53, 54, 99, 54, 99, 54, 102, 50, 48,
    53, 55, 54, 102, 55, 50, 54, 99, 54, 52, 50, 49>>

TestHex == <<53, 52, 54, 53, 55, 51, 55, 52>>

UnknownHex == <<53, 53, 54, 101, 54, 98, 54, 101, 54, 102, 55, 55, 54, 101>>

Detector_new(kind, sample_rate, channels) ==
  LET d0 == [kind |-> kind]
  IN [kind             |-> kind,
      sample_rate      |-> sample_rate,
      channels         |-> channels,
      frame_buffer     |-> <<>>,
      detection_scores |-> <<Zeros(Window(d0)), Zeros(Window(d0))>>,
      frames_processed |-> 0]

\* static_cast<int>(freq / freq_resolution), freq_resolution = sample_rate / (2 * fft_size)
Bin(freq, fft_size, sample_rate) == (freq * 2 * fft_size) \div sample_rate

\* mag_a / (mag_b + 1e-10); 1e-10 is below the resolution of the fixed point
\* and mag_b is at least one step wherever the quotient is taken
Ratio(mag_a, mag_b) == (mag_a * Unit) \div mag_b

\* the assignments analyze_frame_for_watermark makes to detection_scores, in
\* program order: bit is the array (0 or 1), slot the index, val the score
ScoreWrites(d, fft) ==
  IF fft = <<>> THEN <<>>
  ELSE LET fft_size    == Len(fft)
           bin_1000hz  == Bin(1000, fft_size, d.sample_rate)
           bin_1500hz  == Bin(1500, fft_size, d.sample_rate)
           score_index == d.frames_processed % DetectionWindowFrames
       IN IF bin_1000hz < fft_size /\ bin_1500hz < fft_size
          THEN LET mag_1000 == fft[bin_1000hz + 1]
                   mag_1500 == fft[bin_1500hz + 1]
               IN IF 10 * mag_1500 > 12 * mag_1000
                  THEN <<[bit |-> 1, slot |-> score_index, val |-> Ratio(mag_1500, mag_1000)],
                         [bit |-> 0, slot |-> score_index, val |-> 0]>>
                  ELSE IF 10 * mag_1000 > 12 * mag_1500
                  THEN <<[bit |-> 0, slot |-> score_index, val |-> Ratio(mag_1000, mag_1500)],
                         [bit |-> 1, slot |-> score_index, val |-> 0]>>
                  ELSE <<[bit |-> 0, slot |-> score_index, val |-> 0],
                         [bit |-> 1, slot |-> score_index, val |-> 0]>>
          ELSE <<>>

\* detection_scores[w.bit][w.slot] = w.val
WriteScore(d, w) == [d EXCEPT !.detection_scores[w.bit + 1][w.slot + 1] = w.val]

RECURSIVE WriteScores(_, _)
WriteScores(d, ws) == IF ws = <<>> THEN d ELSE WriteScores(WriteScore(d, Head(ws)), Tail(ws))

Detector_analyze_frame_for_watermark(d, fft) == WriteScores(d, ScoreWrites(d, fft))

\* the while loop of RealtimeDetector::Impl::process_frame; ffts holds the
\* spectrum of each block in turn
RECURSIVE Detector_blocks(_, _)
Detector_blocks(d, ffts) ==
  IF has_frame(d.frame_buffer, ParamsFrameSize, d.channels)
  THEN LET p == pop_frame(d.frame_buffer, ParamsFrameSize, d.channels)
           a == Detector_analyze_frame_for_watermark([d EXCEPT !.frame_buffer = p.buffer],
                                                     Head(ffts))
       IN Detector_blocks([a EXCEPT !.frames_processed = @ + 1], Tail(ffts))
  ELSE d

Detector_process_frame_unchecked(d, input_samples, frame_size, ffts) ==
  Detector_blocks([d EXCEPT !.frame_buffer = push_samples(@, input_samples)], ffts)

Detector_process_frame(d, input_samples, frame_size, ffts) ==
  IF Len(input_samples) # frame_size * d.channels THEN d
  ELSE Detector_blocks([d EXCEPT !.frame_buffer = push_samples(@, input_samples)], ffts)

EnoughFramesOffByOne(frames, window) == frames + 1 >= window \div 2

\* the negation of frames_processed < detection_window_frames / 2
EnoughFrames(frames, window) == ~(frames < window \div 2)

\* the result of a query: found is the value returned, message and confidence
\* the caller's variables after the call (message empty before it)
Detector_get_detection_result(d) ==
  IF ~EnoughFrames(d.frames_processed, DetectionWindowFrames)
  THEN [found |-> FALSE, message |-> <<>>, confidence |-> 0]
  ELSE LET avg_score_0 == SumSeq(d.detection_scores[1]) \div DetectionWindowFrames
           avg_score_1 == SumSeq(d.detection_scores[2]) \div DetectionWindowFrames
           total_score == avg_score_0 + avg_score_1
           confidence  == total_score \div DetectionWindowFrames
       IN IF 10 * confidence > 7 * Unit
          THEN [found |-> TRUE,
                message |-> IF 10 * avg_score_1 > 15 * avg_score_0 THEN HelloWorldHex
                            ELSE IF 10 * avg_score_0 > 15 * avg_score_1 THEN TestHex
                            ELSE UnknownHex,
                confidence |-> confidence]
          ELSE [found |-> FALSE, message |-> <<>>, confidence |-> confidence]

Detector_reset_keep_count(d) ==
  [d EXCEPT !.frame_buffer = <<>>,
            !.detection_scores = <<Zeros(Window(d)), Zeros(Window(d))>>]

\* RealtimeDetector::Impl::reset and SimpleDetector::reset
Detector_reset(d) ==
  [d EXCEPT !.frames_processed = 0,
            !.frame_buffer = <<>>,
            !.detection_scores = <<Zeros(Window(d)), Zeros(Window(d))>>]

\* freq_powers[...] of SimpleDetector::analyze_frequencies for one carrier:
\* idx runs over the samples of frames 1 .. frame_size-1
RECURSIVE freq_power(_, _, _, _)
freq_power(d, input, freq, idx) ==
  IF idx >= Len(input) THEN 0
  ELSE LET prev_idx == idx - d.channels
           i        == idx \div d.channels
           term     == IF (input[idx + 1] >= 0) # (input[prev_idx + 1] >= 0)
                       THEN (Abs(SinQ((freq * i) % d.sample_rate, d.sample_rate))
                               * Abs(input[idx + 1])) \div Unit
                       ELSE 0
       IN term + freq_power(d, input, freq, idx + 1)

SimpleDetector_process_frame(d, input, frame_size) ==
  LET slot == d.frames_processed % AnalysisWindow
  IN [d EXCEPT !.detection_scores[1][slot + 1] = freq_power(d, input, 1000, d.channels),
               !.detection_scores[2][slot + 1] = freq_power(d, input, 1500, d.channels),
               !.frames_processed = @ + 1]

SimpleDetector_get_detection_result(d) ==
  IF ~EnoughFrames(d.frames_processed, AnalysisWindow)
  THEN [found |-> FALSE, message |-> <<>>, confidence |-> 0]
  ELSE LET avg_1000    == SumSeq(d.detection_scores[1]) \div AnalysisWindow
           avg_1500    == SumSeq(d.detection_scores[2]) \div AnalysisWindow
           total_power == avg_1000 + avg_1500
       IN IF 10 * total_power > Unit /\ 10 * avg_1500 > 12 * avg_1000
          THEN [found |-> TRUE, message |-> HelloWorldHex,
                confidence |-> Min(Unit, total_power \div 10)]
          ELSE IF 10 * total_power > Unit /\ 10 * avg_1000 > 12 * avg_1500
          THEN [found |-> TRUE, message |-> TestHex,
                confidence |-> Min(Unit, total_power \div 10)]
          ELSE [found |-> FALSE, message |-> <<>>, confidence |-> 0]

Detector_cleared_by_query(d) == Detector_reset(d)

\* the detector after get_detection_result: the function reads the members
\* and assigns only to its two reference parameters
Detector_after_get_detection_result(d) == d

GetDetectionResult(d) ==
  IF d.kind = "RealtimeDetector" THEN Detector_get_detection_result(d)
  ELSE SimpleDetector_get_detection_result(d)

\* detector_get_result and get_detection_result of the exported interface:
\* the value returned, and what was stored through the caller's pointers
detector_get_result(d) ==
  LET r == GetDetectionResult(d)
  IN IF r.found
     THEN [ret |-> 1, written |-> TRUE, message |-> r.message, confidence |-> r.confidence]
     ELSE [ret |-> 0, written |-> FALSE, message |-> <<>>, confidence |-> 0]

----------------------------------------------------------------------------
(* The components at rest: each specification drives one of them *)

CodecIdle == cIn = <<>> /\ cPc = "idle" /\ cOut = <<>>

FrameBufferIdle ==
  /\ fb = [buffer |-> <<>>, channels |-> 1]
  /\ fbN = 1
  /\ fbPushed = <<>>
  /\ fbPopped = <<>>
  /\ fbLast = [op |-> "none", frame |-> <<>>, before |-> <<>>]

NoLimiter ==
  [look_ahead |-> 0, decay_coeff |-> 0, buffer |-> <<>>, max_buffer |-> <<>>,
   maximum |-> Unit]

LimiterIdle ==
  /\ limiter = NoLimiter
  /\ limIn = <<>>
  /\ limOut = <<>>
  /\ limLast = [samples |-> <<>>, out |-> <<>>, gains |-> <<>>, ceilings |-> <<>>]

NoCall == [kind |-> "none", input |-> <<>>, frame_size |-> 0, out |-> <<>>,
           staged |-> <<>>]

EmbedderIdle ==
  /\ config = [sample_rate |-> 0, channels |-> 1, strength |-> 0]
  /\ bitvec = <<>>
  /\ initialized = FALSE
  /\ frame_buffer = <<>>
  /\ output_buffer = <<>>
  /\ frame_count = 0
  /\ wm_limiter = NoLimiter
  /\ ret = NoCall
  /\ hist = [calls |-> 0, resets |-> 0, inAll |-> <<>>, emitted |-> <<>>,
             maxFrame |-> 0, sizes |-> {}, message_hex |-> <<>>]

NoDetector ==
  [kind |-> "none", sample_rate |-> 0, channels |-> 1, frame_buffer |-> <<>>,
   detection_scores |-> <<<<>>, <<>>>>, frames_processed |-> 0]

NoQuery ==
  [op |-> "none",
   result |-> [found |-> FALSE, message |-> <<>>, confidence |-> 0],
   visible |-> [ret |-> 0, written |-> FALSE, message |-> <<>>, confidence |-> 0],
   tags |-> <<<<>>, <<>>>>,
   len |-> 0, frame_size |-> 0]

AudioIdle == [pc |-> "idle", writes |-> <<>>, tags |-> <<<<>>, <<>>>>]

DetectorIdle ==
  /\ det = NoDetector
  /\ detLast = NoQuery
  /\ detHist = [calls |-> 0, blocks |-> 0, resets |-> 0]
  /\ audio = AudioIdle

NoApp ==
  [kind |-> "none", watermarker |-> 0, detector |-> 0,
   senderActive |-> FALSE, receiverActive |-> FALSE,
   senderStarting |-> 0, receiverStarting |-> 0, receiverSetup |-> 0,
   senderProcessor |-> FALSE, receiverProcessor |-> FALSE,
   timers |-> 0, handles |-> <<>>, made |-> <<>>, events |-> 0]

NoWasmCall == [fn |-> "none", handle |-> 0, state |-> "none"]

NoSender ==
  [pc |-> "idle", field |-> <<>>, entered |-> <<>>, path |-> "none",
   watermarker |-> [null |-> TRUE, bits |-> <<>>],
   worklet |-> [null |-> TRUE, bits |-> <<>>],
   init |-> <<>>, embedded |-> [done |-> FALSE, bits |-> <<>>], events |-> 0]

\* the processor as its constructor leaves it, no message posted to it yet
NoProcessor ==
  [kind |-> "none", initialized |-> FALSE, wasmModule |-> FALSE, handle |-> 0,
   buffers |-> FALSE, loading |-> 0, inbox |-> <<>>, handles |-> <<>>,
   final |-> FALSE, lastCall |-> "none", events |-> 0]

AppIdle ==
  app = NoApp /\ appLog = NoWasmCall /\ sender = NoSender /\ processor = NoProcessor

----------------------------------------------------------------------------
(* Specification of the payload codec: one function applied to one input *)

\* payloads of up to MaxBytes bytes written with '0', '1', 'F', 'a'
HexSample == {48, 49, 70, 97}

HexMessages == UNION {[1..(2 * k) -> HexSample] : k \in 1..MaxBytes}

\* strings over Alphabet, every printable character on its own, and payloads
\* of several bytes
CodecInit ==
  /\ cIn \in SeqsUpTo(Alphabet, MaxStrLen) \cup [1..1 -> Printable] \cup HexMessages
  /\ cPc = "start"
  /\ cOut = <<>>

CallTextToHex ==
  /\ cPc = "start"
  /\ cPc' = "TextToHex"
  /\ cOut' = TextToHex(cIn)
  /\ UNCHANGED cIn

CallHexToTextBack ==
  /\ cPc = "TextToHex"
  /\ cPc' = "HexToText.TextToHex"
  /\ cOut' = HexToText(cOut)
  /\ UNCHANGED cIn

CallWasmTextToHex ==
  /\ cPc = "start"
  /\ cPc' = "text_to_hex"
  /\ cOut' = text_to_hex(CStr(cIn))
  /\ UNCHANGED cIn

CallWasmHexToTextBack ==
  /\ cPc = "text_to_hex"
  /\ cPc' = "hex_to_text.text_to_hex"
  /\ cOut' = hex_to_text(cOut)
  /\ UNCHANGED cIn

CallSimpleTextToHex ==
  /\ cPc = "start"
  /\ cPc' = "text_to_hex_simple"
  /\ cOut' = text_to_hex_simple(CStr(cIn))
  /\ UNCHANGED cIn

CallSimpleHexToTextBack ==
  /\ cPc = "text_to_hex_simple"
  /\ cPc' = "hex_to_text_simple.text_to_hex_simple"
  /\ cOut' = hex_to_text_simple(cOut)
  /\ UNCHANGED cIn

CallHexToText ==
  /\ cPc = "start"
  /\ cPc' = "HexToText"
  /\ cOut' = HexToText(cIn)
  /\ UNCHANGED cIn

CallSimpleHexToText ==
  /\ cPc = "start"
  /\ cPc' = "hex_to_text_simple"
  /\ cOut' = hex_to_text_simple(CStr(cIn))
  /\ UNCHANGED cIn

CallIsValidHexMessage ==
  /\ cPc = "start"
  /\ cPc' = "IsValidHexMessage"
  /\ cOut' = IsValidHexMessage(cIn)
  /\ UNCHANGED cIn

CallParsePayload ==
  /\ cPc = "start"
  /\ cPc' = "parse_payload"
  /\ cOut' = parse_payload(cIn)
  /\ UNCHANGED cIn

CallWatermarkerCreate ==
  /\ cPc = "start"
  /\ cPc' = "watermarker_create"
  /\ cOut' = watermarker_create(cIn)
  /\ UNCHANGED cIn

CallCreateSimpleWatermarker ==
  /\ cPc = "start"
  /\ cPc' = "create_simple_watermarker"
  /\ cOut' = create_simple_watermarker(cIn)
  /\ UNCHANGED cIn

InitCodec ==
  CodecInit /\ FrameBufferIdle /\ LimiterIdle /\ EmbedderIdle /\ DetectorIdle /\ AppIdle

NextCodec ==
  \/ CallTextToHex /\ UNCHANGED <<fbVars, limVars, embVars, detVars, appVars>>
  \/ CallHexToTextBack /\ UNCHANGED <<fbVars, limVars, embVars, detVars, appVars>>
  \/ CallWasmTextToHex /\ UNCHANGED <<fbVars, limVars, embVars, detVars, appVars>>
  \/ CallWasmHexToTextBack /\ UNCHANGED <<fbVars, limVars, embVars, detVars, appVars>>
  \/ CallSimpleTextToHex /\ UNCHANGED <<fbVars, limVars, embVars, detVars, appVars>>
  \/ CallSimpleHexToTextBack /\ UNCHANGED <<fbVars, limVars, embVars, detVars, appVars>>
  \/ CallHexToText /\ UNCHANGED <<fbVars, limVars, embVars, detVars, appVars>>
  \/ CallSimpleHexToText /\ UNCHANGED <<fbVars, limVars, embVars, detVars, appVars>>
  \/ CallIsValidHexMessage /\ UNCHANGED <<fbVars, limVars, embVars, detVars, appVars>>
  \/ CallParsePayload /\ UNCHANGED <<fbVars, limVars, embVars, detVars, appVars>>
  \/ CallWatermarkerCreate /\ UNCHANGED <<fbVars, limVars, embVars, detVars, appVars>>
  \/ CallCreateSimpleWatermarker /\ UNCHANGED <<fbVars, limVars, embVars, detVars, appVars>>

SpecCodec == InitCodec /\ [][NextCodec]_vars

----------------------------------------------------------------------------
(* Specification of one FrameBuffer: pushes in chunks, pops of fbN frames *)

Channels == {1, 2}

FBInit ==
  /\ \E c \in Channels : fb = [buffer |-> <<>>, channels |-> c]
  /\ fbN \in {1, 2}
  /\ fbPushed = <<>>
  /\ fbPopped = <<>>
  /\ fbLast = [op |-> "none", frame |-> <<>>, before |-> <<>>]

FBPush ==
  \E chunk \in SeqsUpTo(SampleVals, MaxChunk) :
    /\ Len(fbPushed) + Len(chunk) <= MaxTotal
    /\ fb' = [fb EXCEPT !.buffer = push_samples(@, chunk)]
    /\ fbPushed' = fbPushed \o chunk
    /\ fbLast' = [op |-> "push", frame |-> chunk, before |-> fb.buffer]
    /\ UNCHANGED <<fbN, fbPopped>>

FBPop ==
  LET p == pop_frame(fb.buffer, fbN, fb.channels)
  IN /\ fb' = [fb EXCEPT !.buffer = p.buffer]
     /\ fbPopped' = fbPopped \o p.frame
     /\ fbLast' = [op |-> "pop", frame |-> p.frame, before |-> fb.buffer]
     /\ UNCHANGED <<fbN, fbPushed>>

InitFrameBuffer ==
  FBInit /\ CodecIdle /\ LimiterIdle /\ EmbedderIdle /\ DetectorIdle /\ AppIdle

NextFrameBuffer ==
  \/ FBPush /\ UNCHANGED <<codecVars, limVars, embVars, detVars, appVars>>
  \/ FBPop /\ UNCHANGED <<codecVars, limVars, embVars, detVars, appVars>>

SpecFrameBuffer == InitFrameBuffer /\ [][NextFrameBuffer]_vars

----------------------------------------------------------------------------
(* Specification of one Limiter fed in chunks *)

LimInit ==
  /\ \E sr \in SampleRates : limiter = Limiter_new(sr)
  /\ limIn = <<>>
  /\ limOut = <<>>
  /\ limLast = [samples |-> <<>>, out |-> <<>>, gains |-> <<>>, ceilings |-> <<>>]

LimProcess ==
  \E chunk \in SeqsUpTo(SampleVals, MaxChunk) :
    LET r == Limiter_process(limiter, chunk)
    IN /\ Len(limIn) + Len(chunk) <= MaxTotal
       /\ limiter' = r.limiter
       /\ limIn' = limIn \o chunk
       /\ limOut' = limOut \o r.out
       /\ limLast' = [samples |-> chunk, out |-> r.out, gains |-> r.gains,
                       ceilings |-> r.ceilings]

InitLimiter ==
  LimInit /\ CodecIdle /\ FrameBufferIdle /\ EmbedderIdle /\ DetectorIdle /\ AppIdle

NextLimiter == LimProcess /\ UNCHANGED <<codecVars, fbVars, embVars, detVars, appVars>>

SpecLimiter == InitLimiter /\ [][NextLimiter]_vars

----------------------------------------------------------------------------
(* Specification of one embedder: construction, then ProcessFrame and Reset *)

\* "a5", "1g" and "g1"
Payloads == {<<97, 53>>, <<49, 103>>, <<103, 49>>}

EmbSampleRates == {350, 450}

\* caller frames of a given length: a quiet one and a loud one
InputFrames(len) ==
  {[j \in 1..len |-> j],
   [j \in 1..len |-> IF j % 2 = 1 THEN 2 * Unit + j ELSE -(Unit + j)]}

\* RealtimeWatermarker::RealtimeWatermarker and Impl::Impl
EmbInit ==
  \E sr \in EmbSampleRates, ch \in Channels, message_hex \in Payloads :
    /\ config = [sample_rate |-> sr, channels |-> ch, strength |-> Unit \div 2]
    /\ bitvec = parse_payload(message_hex)
    /\ initialized = (parse_payload(message_hex) # <<>>)
    /\ frame_buffer = <<>>
    /\ output_buffer = <<>>
    /\ frame_count = 0
    /\ wm_limiter = IF parse_payload(message_hex) # <<>>
                    THEN Limiter_new(sr) ELSE NoLimiter
    /\ ret = NoCall
    /\ hist = [calls |-> 0, resets |-> 0, inAll |-> <<>>, emitted |-> <<>>,
               maxFrame |-> 0, sizes |-> {}, message_hex |-> message_hex]

\* one ProcessFrame call and what it leaves behind
DoProcessFrame(input_samples, frame_size) ==
  \E r \in {ProcessFrame(EmbState, input_samples, frame_size)} :
     /\ frame_buffer' = r.e.frame_buffer
     /\ output_buffer' = r.e.output_buffer
     /\ frame_count' = r.e.frame_count
     /\ wm_limiter' = r.e.limiter
     /\ ret' = [kind |-> r.kind, input |-> input_samples, frame_size |-> frame_size,
                out |-> r.out, staged |-> r.staged]
     /\ hist' = [hist EXCEPT
                   !.calls = @ + 1,
                   !.inAll = IF r.kind \in {"popped", "zeros"}
                             THEN @ \o input_samples ELSE @,
                   !.emitted = IF r.kind = "popped" THEN @ \o r.out ELSE @,
                   !.maxFrame = IF r.kind \in {"popped", "zeros"}
                                THEN Max(@, frame_size) ELSE @,
                   !.sizes = IF r.kind \in {"popped", "zeros"}
                             THEN @ \cup {frame_size} ELSE @]
     /\ UNCHANGED <<config, bitvec, initialized>>

CallProcessFrame ==
  /\ hist.calls < MaxCalls
  /\ \E frame_size \in 0..MaxFrame :
       \E input_samples \in InputFrames(frame_size * config.channels) :
         DoProcessFrame(input_samples, frame_size)

CallProcessFrameBadSize ==
  /\ hist.calls < MaxCalls
  /\ \E frame_size \in 0..MaxFrame :
       \E input_samples \in InputFrames(frame_size * config.channels + 1) :
         DoProcessFrame(input_samples, frame_size)

CallReset ==
  /\ hist.calls < MaxCalls
  /\ \E e \in {Impl_reset(EmbState)} :
        /\ frame_buffer' = e.frame_buffer
        /\ output_buffer' = e.output_buffer
        /\ frame_count' = e.frame_count
        /\ wm_limiter' = e.limiter
  /\ ret' = [NoCall EXCEPT !.kind = "reset"]
  /\ hist' = [hist EXCEPT !.calls = @ + 1, !.resets = @ + 1,
                          !.inAll = <<>>, !.emitted = <<>>, !.maxFrame = 0,
                          !.sizes = {}]
  /\ UNCHANGED <<config, bitvec, initialized>>

Init == EmbInit /\ CodecIdle /\ FrameBufferIdle /\ LimiterIdle /\ DetectorIdle /\ AppIdle

Next ==
  \/ CallProcessFrame /\ UNCHANGED <<codecVars, fbVars, limVars, detVars, appVars>>
  \/ CallProcessFrameBadSize /\ UNCHANGED <<codecVars, fbVars, limVars, detVars, appVars>>
  \/ CallReset /\ UNCHANGED <<codecVars, fbVars, limVars, detVars, appVars>>

Spec == Init /\ [][Next]_vars

----------------------------------------------------------------------------
(* Specification of one SimpleWatermarkGen called block by block, as the loop
   of Impl::process_frame calls it; ret holds the last block and its result *)

\* blocks enough to go once through a payload of one byte and wrap
GenCalls == 8 * ParamsFramesPerBit + 2

\* SimpleWatermarkGen::SimpleWatermarkGen, built by Impl::Impl from a payload
\* that parsed
GenInit ==
  \E sr \in EmbSampleRates, ch \in Channels, message_hex \in Payloads :
    /\ parse_payload(message_hex) # <<>>
    /\ config = [sample_rate |-> sr, channels |-> ch, strength |-> Unit \div 2]
    /\ bitvec = parse_payload(message_hex)
    /\ initialized = FALSE
    /\ frame_buffer = <<>>
    /\ output_buffer = <<>>
    /\ frame_count = 0
    /\ wm_limiter = NoLimiter
    /\ ret = NoCall
    /\ hist = [calls |-> 0, resets |-> 0, inAll |-> <<>>, emitted |-> <<>>,
               maxFrame |-> 0, sizes |-> {}, message_hex |-> message_hex]

DoGenProcessFrame(input_samples) ==
  \E r \in {wm_gen_process_frame(frame_count, bitvec, config, input_samples)} :
     /\ frame_count' = r.frame_count
     /\ ret' = [kind |-> IF r.frame_count = frame_count THEN "gen_mismatch" ELSE "block",
                input |-> input_samples, frame_size |-> ParamsFrameSize,
                out |-> r.out, staged |-> <<>>]
     /\ hist' = [hist EXCEPT !.calls = @ + 1]
     /\ UNCHANGED <<config, bitvec, initialized, frame_buffer, output_buffer, wm_limiter>>

GenProcessFrame ==
  /\ hist.calls < GenCalls
  /\ \E input_samples \in InputFrames(ParamsFrameSize * config.channels) :
       DoGenProcessFrame(input_samples)

GenProcessFrameBadSize ==
  /\ hist.calls < GenCalls
  /\ \E input_samples \in InputFrames(ParamsFrameSize * config.channels + 1) :
       DoGenProcessFrame(input_samples)

\* SimpleWatermarkGen::reset
GenReset ==
  /\ hist.calls < GenCalls
  /\ hist.resets = 0
  /\ frame_count' = 0
  /\ ret' = [NoCall EXCEPT !.kind = "gen_reset"]
  /\ hist' = [hist EXCEPT !.calls = @ + 1, !.resets = @ + 1]
  /\ UNCHANGED <<config, bitvec, initialized, frame_buffer, output_buffer, wm_limiter>>

InitWmGen ==
  GenInit /\ CodecIdle /\ FrameBufferIdle /\ LimiterIdle /\ DetectorIdle /\ AppIdle

NextWmGen ==
  \/ GenProcessFrame /\ UNCHANGED <<codecVars, fbVars, limVars, detVars, appVars>>
  \/ GenProcessFrameBadSize /\ UNCHANGED <<codecVars, fbVars, limVars, detVars, appVars>>
  \/ GenReset /\ UNCHANGED <<codecVars, fbVars, limVars, detVars, appVars>>

SpecWmGen == InitWmGen /\ [][NextWmGen]_vars

----------------------------------------------------------------------------
(* Specification of one detector used from one thread: ProcessFrame,
   GetDetectionResult and Reset in any order *)

DetKinds == {"RealtimeDetector", "SimpleDetector"}

\* 2000 Hz puts the carrier bins out of the spectrum, 4000 Hz inside it
DetSampleRates == {2000, 4000}

\* magnitudes at 1000 Hz and 1500 Hz: silence, a strong bit 0, a strong bit 1
\* and a weak bit 0
MagPairs == {<<0, 0>>, <<16 * Unit, Unit>>, <<Unit, 16 * Unit>>, <<2 * Unit, Unit>>}

\* what run_fft can return for a block: nothing, or the magnitudes of the
\* bins, the last bin holding 1500 Hz and the others 1000 Hz
Spectra ==
  {<<>>} \cup {[k \in 1..FftSize |-> IF k = FftSize THEN m[2] ELSE m[1]] : m \in MagPairs}

QuietFrame(len) == [j \in 1..len |-> Unit \div 2]

\* caller frames for SimpleDetector: a quiet one, and one whose frames
\* alternate in sign in every channel
DetFrames(len, channels) ==
  {QuietFrame(len),
   [j \in 1..len |-> IF ((j - 1) \div channels) % 2 = 0 THEN 2 * Unit ELSE -3 * Unit]}

\* the internal blocks complete once input_samples are pushed
NBlocks(d, input_samples) ==
  (Len(d.frame_buffer) + Len(input_samples)) \div (ParamsFrameSize * d.channels)

DetInit ==
  /\ \E kind \in DetKinds, sr \in DetSampleRates, ch \in Channels :
       det = Detector_new(kind, sr, ch)
  /\ detLast = NoQuery
  /\ detHist = [calls |-> 0, blocks |-> 0, resets |-> 0]
  /\ audio = AudioIdle

\* RealtimeDetector::ProcessFrame
CallDetectorProcessFrame ==
  /\ det.kind = "RealtimeDetector"
  /\ detHist.calls < MaxDetCalls
  /\ \E frame_size \in 1..MaxFrame :
       \E input_samples \in {QuietFrame(frame_size * det.channels)} :
         \E ffts \in [1..NBlocks(det, input_samples) -> Spectra] :
           /\ det' = Detector_process_frame(det, input_samples, frame_size, ffts)
           /\ detHist' = [detHist EXCEPT !.calls = @ + 1,
                                         !.blocks = @ + NBlocks(det, input_samples)]
           /\ detLast' = [NoQuery EXCEPT !.op = "process_frame",
                                         !.len = Len(input_samples),
                                         !.frame_size = frame_size]
  /\ UNCHANGED audio

CallDetectorProcessFrameBadSize ==
  /\ det.kind = "RealtimeDetector"
  /\ detHist.calls < MaxDetCalls
  /\ \E frame_size \in 1..MaxFrame :
       \E input_samples \in {QuietFrame(frame_size * det.channels + 1)} :
         \E ffts \in [1..NBlocks(det, input_samples) -> Spectra] :
           /\ det' = Detector_process_frame(det, input_samples, frame_size, ffts)
           /\ detLast' = [NoQuery EXCEPT !.op = "process_frame",
                                         !.len = Len(input_samples),
                                         !.frame_size = frame_size]
  /\ detHist' = [detHist EXCEPT !.calls = @ + 1]
  /\ UNCHANGED audio

\* detect_simple_frame
CallDetectSimpleFrame ==
  /\ det.kind = "SimpleDetector"
  /\ detHist.calls < MaxDetCalls
  /\ \E frame_size \in 1..MaxFrame :
       \E input \in DetFrames(frame_size * det.channels, det.channels) :
         /\ det' = SimpleDetector_process_frame(det, input, frame_size)
         /\ detLast' = [NoQuery EXCEPT !.op = "process_frame",
                                       !.len = Len(input),
                                       !.frame_size = frame_size]
  /\ detHist' = [detHist EXCEPT !.calls = @ + 1, !.blocks = @ + 1]
  /\ UNCHANGED audio

CallGetDetectionResult ==
  /\ detHist.calls < MaxDetCalls
  /\ detLast' = [op |-> "get_result",
                 result |-> GetDetectionResult(det),
                 visible |-> detector_get_result(det),
                 tags |-> audio.tags,
                 len |-> 0, frame_size |-> 0]
  /\ detHist' = [detHist EXCEPT !.calls = @ + 1]
  /\ det' = Detector_after_get_detection_result(det)
  /\ UNCHANGED audio

CallDetectorReset ==
  /\ detHist.calls < MaxDetCalls
  /\ det' = Detector_reset(det)
  /\ detLast' = [NoQuery EXCEPT !.op = "reset"]
  /\ detHist' = [detHist EXCEPT !.calls = @ + 1, !.blocks = 0, !.resets = @ + 1]
  /\ UNCHANGED audio

InitDetector ==
  DetInit /\ CodecIdle /\ FrameBufferIdle /\ LimiterIdle /\ EmbedderIdle /\ AppIdle

NextDetector ==
  \/ CallDetectorProcessFrame /\ UNCHANGED <<codecVars, fbVars, limVars, embVars, appVars>>
  \/ CallDetectorProcessFrameBadSize
       /\ UNCHANGED <<codecVars, fbVars, limVars, embVars, appVars>>
  \/ CallDetectSimpleFrame /\ UNCHANGED <<codecVars, fbVars, limVars, embVars, appVars>>
  \/ CallGetDetectionResult /\ UNCHANGED <<codecVars, fbVars, limVars, embVars, appVars>>
  \/ CallDetectorReset /\ UNCHANGED <<codecVars, fbVars, limVars, embVars, appVars>>

SpecDetector == InitDetector /\ [][NextDetector]_vars

----------------------------------------------------------------------------
(* Specification of one RealtimeDetector shared by two threads: the audio
   thread runs ProcessFrame on one internal block at a time, statement by
   statement, while a poller calls GetDetectionResult.  Nothing in the program
   orders the two.  audio.tags records, for each score array and slot, the
   block that wrote it last. *)

DetThreadsInit ==
  /\ \E sr \in DetSampleRates, ch \in Channels :
       det = Detector_new("RealtimeDetector", sr, ch)
  /\ detLast = NoQuery
  /\ detHist = [calls |-> 0, blocks |-> 0, resets |-> 0]
  /\ audio = [pc |-> "idle", writes |-> <<>>,
              tags |-> <<Zeros(DetectionWindowFrames), Zeros(DetectionWindowFrames)>>]

\* process_frame up to the call of analyze_frame_for_watermark: a block is
\* pushed and popped, its spectrum taken
AudioBeginBlock ==
  /\ audio.pc = "idle"
  /\ detHist.blocks < MaxBlocks
  /\ \E fft \in Spectra :
       audio' = [audio EXCEPT !.pc = "analyze", !.writes = ScoreWrites(det, fft)]
  /\ UNCHANGED <<det, detLast, detHist>>

\* one assignment to detection_scores
AudioWriteScore ==
  /\ audio.pc = "analyze"
  /\ audio.writes # <<>>
  /\ det' = WriteScore(det, Head(audio.writes))
  /\ audio' = [audio EXCEPT
                 !.writes = Tail(@),
                 !.tags[Head(audio.writes).bit + 1][Head(audio.writes).slot + 1] =
                    detHist.blocks + 1]
  /\ UNCHANGED <<detLast, detHist>>

\* frames_processed++
AudioAdvance ==
  /\ audio.pc = "analyze"
  /\ audio.writes = <<>>
  /\ det' = [det EXCEPT !.frames_processed = @ + 1]
  /\ detHist' = [detHist EXCEPT !.blocks = @ + 1]
  /\ audio' = [audio EXCEPT !.pc = "idle"]
  /\ UNCHANGED detLast

\* GetDetectionResult on the polling thread
PollGetDetectionResult ==
  /\ detHist.calls < MaxDetCalls
  /\ detLast' = [op |-> "poll",
                 result |-> GetDetectionResult(det),
                 visible |-> detector_get_result(det),
                 tags |-> audio.tags,
                 len |-> 0, frame_size |-> 0]
  /\ detHist' = [detHist EXCEPT !.calls = @ + 1]
  /\ UNCHANGED <<det, audio>>

InitDetectorThreads ==
  DetThreadsInit /\ CodecIdle /\ FrameBufferIdle /\ LimiterIdle /\ EmbedderIdle /\ AppIdle

NextDetectorThreads ==
  \/ AudioBeginBlock /\ UNCHANGED <<codecVars, fbVars, limVars, embVars, appVars>>
  \/ AudioWriteScore /\ UNCHANGED <<codecVars, fbVars, limVars, embVars, appVars>>
  \/ AudioAdvance /\ UNCHANGED <<codecVars, fbVars, limVars, embVars, appVars>>
  \/ PollGetDetectionResult /\ UNCHANGED <<codecVars, fbVars, limVars, embVars, appVars>>

SpecDetectorThreads == InitDetectorThreads /\ [][NextDetectorThreads]_vars

----------------------------------------------------------------------------
(* Specification of the web application: the handlers of the start and stop
   buttons, the onaudioprocess callbacks of the ScriptProcessor nodes and the
   polling timer, run one at a time by the event loop.  An async handler is
   one action up to each await.  Handles are numbered in order of creation;
   app.handles holds the state of each.  The callback of a node may still run
   after the node was disconnected. *)

MaxEvents == 8      \* handler runs of one application

\* "simple" is SimpleAudioWmarkApp, "real" is AudioWmarkApp
AppKinds == {"simple", "real"}

HandleState(a, h) == IF h = 0 THEN "null" ELSE a.handles[h]

\* a call into the module: the function, the handle passed and its state then
WasmCall(a, fn, h) == [fn |-> fn, handle |-> h, state |-> HandleState(a, h)]

KeepHandle(h) == h

\* this.watermarker = null / this.detector = null after the destroy call
AfterDestroy(h) == 0

AppInit ==
  /\ \E k \in AppKinds : app = [NoApp EXCEPT !.kind = k]
  /\ appLog = NoWasmCall
  /\ sender = NoSender
  /\ processor = NoProcessor

\* startSender up to `await this.setupSenderAudio()`: the watermarker is
\* created (or creation fails and the handler ends in its catch block)
StartSenderBegin ==
  /\ app.events < MaxEvents
  /\ \E ok \in BOOLEAN :
       LET h == IF ok THEN Len(app.handles) + 1 ELSE 0
       IN /\ app' = [app EXCEPT
                       !.events = @ + 1,
                       !.handles = IF ok THEN Append(@, "Active") ELSE @,
                       !.made = IF ok THEN Append(@, "watermarker") ELSE @,
                       !.watermarker = h,
                       !.senderStarting = IF ok THEN @ + 1 ELSE @,
                       !.senderProcessor = @ \/ ok]
          /\ appLog' = [fn |-> "createWatermarker", handle |-> h,
                        state |-> IF ok THEN "Active" ELSE "null"]

\* startSender after the await: setupSenderAudio returned, or it threw and
\* the catch block only reports the error
StartSenderResume ==
  /\ app.events < MaxEvents
  /\ app.senderStarting > 0
  /\ \E ok \in BOOLEAN :
       app' = [app EXCEPT !.events = @ + 1, !.senderStarting = @ - 1,
                          !.senderActive = IF ok THEN TRUE ELSE @]
  /\ UNCHANGED appLog

\* onaudioprocess of a sender node
SenderAudioProcess ==
  /\ app.events < MaxEvents
  /\ app.senderProcessor
  /\ app' = [app EXCEPT !.events = @ + 1]
  /\ appLog' = WasmCall(app, "processFrame", app.watermarker)

stopSender ==
  /\ app.events < MaxEvents
  /\ app' = [app EXCEPT
               !.events = @ + 1,
               !.senderActive = FALSE,
               !.handles = IF app.watermarker # 0
                           THEN [@ EXCEPT ![app.watermarker] = "Destroyed"] ELSE @,
               !.watermarker = IF @ # 0 THEN AfterDestroy(@) ELSE @]
  /\ appLog' = IF app.watermarker # 0
               THEN WasmCall(app, "destroyWatermarker", app.watermarker)
               ELSE appLog

\* startReceiver up to `await navigator.mediaDevices.getUserMedia(...)`
StartReceiverBegin ==
  /\ app.events < MaxEvents
  /\ app' = [app EXCEPT !.events = @ + 1, !.receiverStarting = @ + 1]
  /\ UNCHANGED appLog

\* startReceiver from there to `await this.setupReceiverAudio()`
StartReceiverCreate ==
  /\ app.events < MaxEvents
  /\ app.receiverStarting > 0
  /\ \E ok \in BOOLEAN :
       LET h == IF ok THEN Len(app.handles) + 1 ELSE 0
       IN /\ app' = [app EXCEPT
                       !.events = @ + 1,
                       !.receiverStarting = @ - 1,
                       !.handles = IF ok THEN Append(@, "Active") ELSE @,
                       !.made = IF ok THEN Append(@, "detector") ELSE @,
                       !.detector = h,
                       !.receiverSetup = IF ok THEN @ + 1 ELSE @,
                       !.receiverProcessor = @ \/ ok]
          /\ appLog' = [fn |-> "createDetector", handle |-> h,
                        state |-> IF ok THEN "Active" ELSE "null"]

\* checkDetection polls when the receiver is active and holds a detector
Polls(a) == a.receiverActive /\ a.detector # 0

\* startReceiver after the second await, startDetectionPolling included:
\* AudioWmarkApp runs checkDetection at once, SimpleAudioWmarkApp sets a timer
StartReceiverResumed ==
  LET a == [app EXCEPT !.events = @ + 1, !.receiverSetup = @ - 1,
                       !.receiverActive = TRUE]
  IN IF app.kind = "real"
     THEN /\ app' = [a EXCEPT !.timers = IF Polls(a) THEN @ + 1 ELSE @]
          /\ appLog' = IF Polls(a)
                       THEN WasmCall(a, "getDetectionResult", a.detector)
                       ELSE appLog
     ELSE /\ app' = [a EXCEPT !.timers = @ + 1]
          /\ UNCHANGED appLog

\* setupReceiverAudio threw: the catch block only reports the error
StartReceiverFailed ==
  /\ app' = [app EXCEPT !.events = @ + 1, !.receiverSetup = @ - 1]
  /\ UNCHANGED appLog

StartReceiverResume ==
  /\ app.events < MaxEvents
  /\ app.receiverSetup > 0
  /\ \/ StartReceiverResumed
     \/ StartReceiverFailed

\* onaudioprocess of a receiver node
ReceiverAudioProcess ==
  /\ app.events < MaxEvents
  /\ app.receiverProcessor
  /\ app' = [app EXCEPT !.events = @ + 1]
  /\ appLog' = WasmCall(app, "detectFrame", app.detector)

\* checkDetection run by a timer
checkDetection ==
  /\ app.events < MaxEvents
  /\ app.timers > 0
  /\ app' = [app EXCEPT !.events = @ + 1,
                        !.timers = IF Polls(app) THEN @ ELSE @ - 1]
  /\ appLog' = IF Polls(app)
               THEN WasmCall(app, "getDetectionResult", app.detector)
               ELSE appLog

stopReceiver ==
  /\ app.events < MaxEvents
  /\ app' = [app EXCEPT
               !.events = @ + 1,
               !.receiverActive = FALSE,
               !.handles = IF app.detector # 0
                           THEN [@ EXCEPT ![app.detector] = "Destroyed"] ELSE @,
               !.detector = IF @ # 0 THEN AfterDestroy(@) ELSE @]
  /\ appLog' = IF app.detector # 0
               THEN WasmCall(app, "destroyDetector", app.detector)
               ELSE appLog

InitApp ==
  AppInit /\ CodecIdle /\ FrameBufferIdle /\ LimiterIdle /\ EmbedderIdle /\ DetectorIdle

NextApp ==
  \/ StartSenderBegin /\ UNCHANGED <<codecVars, fbVars, limVars, embVars, detVars, sender, processor>>
  \/ StartSenderResume /\ UNCHANGED <<codecVars, fbVars, limVars, embVars, detVars, sender, processor>>
  \/ SenderAudioProcess /\ UNCHANGED <<codecVars, fbVars, limVars, embVars, detVars, sender, processor>>
  \/ stopSender /\ UNCHANGED <<codecVars, fbVars, limVars, embVars, detVars, sender, processor>>
  \/ StartReceiverBegin /\ UNCHANGED <<codecVars, fbVars, limVars, embVars, detVars, sender, processor>>
  \/ StartReceiverCreate /\ UNCHANGED <<codecVars, fbVars, limVars, embVars, detVars, sender, processor>>
  \/ StartReceiverResume /\ UNCHANGED <<codecVars, fbVars, limVars, embVars, detVars, sender, processor>>
  \/ ReceiverAudioProcess /\ UNCHANGED <<codecVars, fbVars, limVars, embVars, detVars, sender, processor>>
  \/ checkDetection /\ UNCHANGED <<codecVars, fbVars, limVars, embVars, detVars, sender, processor>>
  \/ stopReceiver /\ UNCHANGED <<codecVars, fbVars, limVars, embVars, detVars, sender, processor>>

SpecApp == InitApp /\ [][NextApp]_vars

----------------------------------------------------------------------------
(* Specification of the sender of SimpleAudioWmarkApp: the message typed in
   the message input, the Start button, the watermarker of the page, the
   watermarker the AudioWorklet processor builds for itself from its init
   message, and the audio callbacks.  sender.entered remembers the value of
   the input when Start was clicked; sender.embedded is the payload of the
   watermarker that produced the last block sent to the loudspeaker. *)

MaxSenderEvents == 5    \* handler runs of one sender

\* "Hello World!" and "Demo Message"
HelloWorld == <<72, 101, 108, 108, 111, 32, 87, 111, 114, 108, 100, 33>>

DemoMessage == <<68, 101, 109, 111, 32, 77, 101, 115, 115, 97, 103, 101>>

\* values of the message input: "", "A", "g", "AA", ...
MessageInputs == SeqsUpTo({65, 103}, MaxChunk)

\* JavaScript `value || fallback` on strings: the empty string is falsy
OrDefault(value, fallback) == IF value = <<>> THEN fallback ELSE value

\* this.currentMessage: no statement assigns it, it stays undefined
currentMessage == <<>>

NoEmbedding == [done |-> FALSE, bits |-> <<>>]

SenderPaths == {"worklet", "script"}

\* startSender with setupSenderAudio: the page converts the input and creates
\* its watermarker, then sets up one of the two processors; the AudioWorklet
\* one is sent an init message
startSender ==
  /\ sender.events < MaxSenderEvents
  /\ sender.pc = "idle"
  /\ \E path \in SenderPaths :
       LET message    == OrDefault(sender.field, HelloWorld)
           messageHex == text_to_hex_simple(CStr(message))
       IN sender' = [sender EXCEPT
                       !.events = @ + 1,
                       !.pc = "active",
                       !.entered = sender.field,
                       !.path = path,
                       !.watermarker = create_simple_watermarker(messageHex.str),
                       !.init = IF path = "worklet"
                                THEN <<OrDefault(currentMessage, DemoMessage)>>
                                ELSE <<>>]

\* WatermarkSenderProcessor.initWatermarker, run for the init message
initWatermarker ==
  /\ sender.events < MaxSenderEvents
  /\ sender.init # <<>>
  /\ LET message    == OrDefault(Head(sender.init), DemoMessage)
         hexMessage == text_to_hex_simple(CStr(message))
     IN sender' = [sender EXCEPT
                     !.events = @ + 1,
                     !.init = <<>>,
                     !.worklet = create_simple_watermarker(hexMessage.str)]

\* one audio block: onaudioprocess of the ScriptProcessor node hands it to the
\* watermarker of the page, process() of the worklet to its own watermarker,
\* or passes it through while that one is not there yet
SenderProcessBlock ==
  /\ sender.events < MaxSenderEvents
  /\ sender.pc = "active"
  /\ sender' = [sender EXCEPT
                  !.events = @ + 1,
                  !.embedded =
                     IF sender.path = "script"
                     THEN [done |-> TRUE, bits |-> sender.watermarker.bits]
                     ELSE IF ~sender.worklet.null
                     THEN [done |-> TRUE, bits |-> sender.worklet.bits]
                     ELSE NoEmbedding]

\* the user types into the message input
EditMessage ==
  /\ sender.events < MaxSenderEvents
  /\ \E m \in MessageInputs \ {sender.field} :
       sender' = [sender EXCEPT !.events = @ + 1, !.field = m]

\* stopSender, with cleanup() of the worklet for its destroy message
SenderStop ==
  /\ sender.events < MaxSenderEvents
  /\ sender.pc = "active"
  /\ sender' = [NoSender EXCEPT !.events = sender.events + 1,
                                !.field = sender.field]

SenderInit == sender = NoSender

InitSender ==
  /\ SenderInit /\ app = NoApp /\ appLog = NoWasmCall /\ processor = NoProcessor
  /\ CodecIdle /\ FrameBufferIdle /\ LimiterIdle /\ EmbedderIdle /\ DetectorIdle

NextSender ==
  \/ startSender /\ UNCHANGED <<codecVars, fbVars, limVars, embVars, detVars, app, appLog, processor>>
  \/ initWatermarker /\ UNCHANGED <<codecVars, fbVars, limVars, embVars, detVars, app, appLog, processor>>
  \/ SenderProcessBlock /\ UNCHANGED <<codecVars, fbVars, limVars, embVars, detVars, app, appLog, processor>>
  \/ EditMessage /\ UNCHANGED <<codecVars, fbVars, limVars, embVars, detVars, app, appLog, processor>>
  \/ SenderStop /\ UNCHANGED <<codecVars, fbVars, limVars, embVars, detVars, app, appLog, processor>>

SpecSender == InitSender /\ [][NextSender]_vars

----------------------------------------------------------------------------
(* Specification of one AudioWorklet processor, WatermarkSenderProcessor or
   WatermarkReceiverProcessor: the messages posted to its port are handled in
   the order they were posted, handleMessage runs up to the await of
   loadWasmFromBinary and resumes when the module is instantiated, and
   process() runs between any two of these steps.  processor.final is set
   once 'destroy' was handled with no 'init' posted after it. *)

MaxProcessorEvents == 7   \* messages posted, handler steps and process() calls

ProcessorKinds == {"sender", "receiver"}

ProcessorInit ==
  \E k \in ProcessorKinds : processor = [NoProcessor EXCEPT !.kind = k]

\* port.postMessage({type: 'init', ...}) by the page
PostInit ==
  /\ processor.events < MaxProcessorEvents
  /\ processor' = [processor EXCEPT !.events = @ + 1,
                                    !.inbox = Append(@, "init"),
                                    !.final = FALSE]

\* port.postMessage({type: 'destroy'}) by stopSender / stopReceiver
PostDestroy ==
  /\ processor.events < MaxProcessorEvents
  /\ processor' = [processor EXCEPT !.events = @ + 1,
                                    !.inbox = Append(@, "destroy")]

\* handleMessage, case 'init': initWatermarker / initDetector up to
\* `await this.loadWasmFromBinary()`
HandleInit ==
  /\ processor.events < MaxProcessorEvents
  /\ processor.inbox # <<>> /\ Head(processor.inbox) = "init"
  /\ processor' = [processor EXCEPT !.events = @ + 1,
                                    !.inbox = Tail(@),
                                    !.loading = @ + 1]

\* the rest of initWatermarker / initDetector once the module is
\* instantiated: create the handle, allocate the buffers, set initialized;
\* an exception on the way leaves what was assigned before it
AfterLoad(p, outcome, some) ==
  IF outcome = "load_failed" THEN p
  ELSE IF outcome = "create_failed"
       THEN [p EXCEPT !.wasmModule = TRUE, !.handle = 0]
  ELSE IF outcome = "alloc_failed"
       THEN [p EXCEPT !.wasmModule = TRUE,
                      !.handle = Len(p.handles) + 1,
                      !.handles = Append(@, "Active"),
                      !.buffers = some]
  ELSE [p EXCEPT !.wasmModule = TRUE,
                 !.handle = Len(p.handles) + 1,
                 !.handles = Append(@, "Active"),
                 !.buffers = TRUE,
                 !.initialized = TRUE]

LoadOutcomes == {"ok", "load_failed", "create_failed", "alloc_failed"}

ResumeInit ==
  /\ processor.events < MaxProcessorEvents
  /\ processor.loading > 0
  /\ \E outcome \in LoadOutcomes, some \in BOOLEAN :
       processor' = [AfterLoad(processor, outcome, some) EXCEPT
                       !.events = @ + 1, !.loading = @ - 1]

\* cleanup(): with a module loaded the handle is destroyed and the buffers
\* are freed; initialized is cleared in any case
cleanup(p) ==
  IF p.wasmModule
  THEN [p EXCEPT !.handles = IF p.handle # 0
                             THEN [@ EXCEPT ![p.handle] = "Destroyed"] ELSE @,
                 !.handle = 0, !.buffers = FALSE, !.initialized = FALSE]
  ELSE [p EXCEPT !.initialized = FALSE]

\* handleMessage, case 'destroy'
HandleDestroy ==
  /\ processor.events < MaxProcessorEvents
  /\ processor.inbox # <<>> /\ Head(processor.inbox) = "destroy"
  /\ processor' = [cleanup(processor) EXCEPT
                     !.events = @ + 1,
                     !.inbox = Tail(@),
                     !.final = \A k \in 2..Len(processor.inbox) :
                                  processor.inbox[k] # "init",
                     !.lastCall = "none"]

\* process(): pass through unless initialized and holding a handle
Process ==
  /\ processor.events < MaxProcessorEvents
  /\ processor' = [processor EXCEPT
                     !.events = @ + 1,
                     !.lastCall = IF ~processor.initialized \/ processor.handle = 0
                                  THEN "passthrough" ELSE "wasm"]

InitProcessor ==
  /\ ProcessorInit /\ app = NoApp /\ appLog = NoWasmCall /\ sender = NoSender
  /\ CodecIdle /\ FrameBufferIdle /\ LimiterIdle /\ EmbedderIdle /\ DetectorIdle

NextProcessor ==
  \/ PostInit /\ UNCHANGED <<codecVars, fbVars, limVars, embVars, detVars, app, appLog, sender>>
  \/ PostDestroy /\ UNCHANGED <<codecVars, fbVars, limVars, embVars, detVars, app, appLog, sender>>
  \/ HandleInit /\ UNCHANGED <<codecVars, fbVars, limVars, embVars, detVars, app, appLog, sender>>
  \/ ResumeInit /\ UNCHANGED <<codecVars, fbVars, limVars, embVars, detVars, app, appLog, sender>>
  \/ HandleDestroy /\ UNCHANGED <<codecVars, fbVars, limVars, embVars, detVars, app, appLog, sender>>
  \/ Process /\ UNCHANGED <<codecVars, fbVars, limVars, embVars, detVars, app, appLog, sender>>

SpecProcessor == InitProcessor /\ [][NextProcessor]_vars

----------------------------------------------------------------------------
(* Properties of the embedder facade, under Spec *)

\* the last call was a ProcessFrame call on an Active embedder
WasProcessFrame(r) == initialized /\ r.kind \notin {"none", "reset"}

SizeValid(r) == Len(r.input) = r.frame_size * config.channels

\* C1: ProcessFrame with len(frame) # frame_size*channels returns the input
\* frame unchanged and leaves both staging buffers, the limiter and the block
\* counter as they were.
C1_BadSizePassThrough ==
  [][(hist'.calls = hist.calls + 1 /\ WasProcessFrame(ret') /\ ~SizeValid(ret'))
       => /\ ret'.out = ret'.input
          /\ frame_buffer' = frame_buffer
          /\ output_buffer' = output_buffer
          /\ wm_limiter' = wm_limiter
          /\ frame_count' = frame_count]_vars

C1_Witness ==
  /\ WasProcessFrame(ret) /\ ~SizeValid(ret)
  /\ ret.out = ret.input
  /\ frame_buffer # <<>>
  /\ wm_limiter.buffer # <<>>
  /\ frame_count > 0

\* C2: every size-valid ProcessFrame call returns exactly frame_size*channels
\* samples: the front of the output staging buffer when it holds that many,
\* else that many zeros; nothing shorter, longer or partly filled.
C2_ExactFrame ==
  (WasProcessFrame(ret) /\ SizeValid(ret)) =>
    LET n == ret.frame_size * config.channels
    IN /\ Len(ret.out) = n
       /\ \/ /\ Len(ret.staged) >= n
             /\ ret.out = Take(ret.staged, n)
             /\ output_buffer = Drop(ret.staged, n)
          \/ /\ Len(ret.staged) < n
             /\ ret.out = Zeros(n)
             /\ output_buffer = ret.staged

C2_Witness ==
  /\ WasProcessFrame(ret) /\ SizeValid(ret)
  /\ config.channels = 2
  /\ ret.frame_size = 2
  /\ ret.kind = "popped"
  /\ output_buffer # <<>>

\* the watermarked blocks of the complete blocks of a stream of input samples
WatermarkedStream(inAll) ==
  LET per == ParamsFrameSize * config.channels
  IN [k \in 1..((Len(inAll) \div per) * per) |->
        LET b == (k - 1) \div per
            n == ((k - 1) % per) \div config.channels
        IN inAll[k] + Watermark(b, n, bitvec[BitIndex(b, bitvec) + 1], config)]

\* what one limiter makes of the whole watermarked stream
RefLimiterOut ==
  Limiter_process(Limiter_new(config.sample_rate), WatermarkedStream(hist.inAll)).out

\* C3: without Reset, the outputs popped so far, concatenated, are a prefix of
\* the limiter output of the watermarked block stream: nothing is dropped,
\* duplicated or reordered on the way through staging, blocks and limiter.
C3_OutputIsPrefix ==
  (initialized /\ hist.resets = 0) => IsPrefix(hist.emitted, RefLimiterOut)

C3_Witness ==
  /\ initialized /\ hist.resets = 0
  /\ frame_count >= 2
  /\ Len(hist.emitted) >= 2
  /\ Len(hist.emitted) < Len(RefLimiterOut)
  /\ IsPrefix(hist.emitted, RefLimiterOut)

\* C7: both staging buffers hold a whole number of interleaved frames after
\* every ProcessFrame call.
C7_ChannelAligned ==
  initialized =>
    /\ Len(frame_buffer) % config.channels = 0
    /\ Len(output_buffer) % config.channels = 0

\* C18: Reset clears all session state, the limiter's look-ahead history and
\* smoothed gain included: the limiter is as new, and what is returned after
\* Reset is what a freshly created embedder returns for the post-Reset input.
C18_ResetEqualsFresh ==
  (initialized /\ hist.resets > 0) =>
    /\ (ret.kind = "reset" => wm_limiter = Limiter_new(config.sample_rate))
    /\ IsPrefix(hist.emitted, RefLimiterOut)

\* C20: after every ProcessFrame call the input staging buffer holds less
\* than one internal block, and the output staging buffer stays below a
\* constant of the largest caller frame size in use, the internal block size
\* and look_ahead, whatever the number of calls.
C20_BoundedStaging ==
  initialized =>
    /\ Len(frame_buffer) < ParamsFrameSize * config.channels
    /\ Len(output_buffer) <
         (ParamsFrameSize + hist.maxFrame) * config.channels + wm_limiter.look_ahead

C20_Witness ==
  /\ initialized
  /\ hist.calls >= 3
  /\ ret.kind = "popped" /\ ret.frame_size >= 1
  /\ Len(output_buffer) >= ParamsFrameSize * config.channels

----------------------------------------------------------------------------
(* Properties of the Limiter, under SpecLimiter *)

\* C4: every sample the limiter emits is within the ceiling 1.0, also when
\* the peak is the first sample of the stream.
C4_LimiterCeiling == \A k \in 1..Len(limOut) : Abs(limOut[k]) <= Unit

\* C5: after total input N the limiter has emitted N - look_ahead samples
\* (none while N <= look_ahead) and keeps min(N, look_ahead) samples of
\* history, however the input was split into calls.
C5_LimiterLatency ==
  LET la == limiter.look_ahead
      N  == Len(limIn)
  IN /\ Len(limOut) = (IF N > la THEN N - la ELSE 0)
     /\ Len(limiter.buffer) = (IF N < la THEN N ELSE la)
     /\ Len(limiter.max_buffer) = Len(limiter.buffer)

C5_Witness ==
  /\ limiter.look_ahead >= 2
  /\ Len(limIn) > limiter.look_ahead
  /\ limLast.samples # <<>>
  /\ Len(limLast.samples) < Len(limIn)
  /\ Len(limLast.out) < Len(limOut)
  /\ Len(limOut) = Len(limIn) - limiter.look_ahead

----------------------------------------------------------------------------
(* Properties of the FrameBuffer, under SpecFrameBuffer *)

\* the blocks popped after pushing all of S at once
AllBlocks(S, n, channels) == Take(S, (Len(S) \div (n * channels)) * (n * channels))

\* C6: the blocks popped between pushes of arbitrary chunks are the blocks of
\* the whole pushed sequence, each of n*channels samples, in FIFO order.
C6_ChunkingAssociative ==
  LET per == fbN * fb.channels
  IN /\ fbPopped \o fb.buffer = fbPushed
     /\ Len(fbPopped) % per = 0
     /\ (fbLast.op = "pop" => Len(fbLast.frame) \in {0, per})
     /\ (Len(fb.buffer) < per => fbPopped = AllBlocks(fbPushed, fbN, fb.channels))

C6_Witness ==
  /\ fb.channels = 2
  /\ Len(fbPopped) >= 2 * fbN * fb.channels
  /\ fb.buffer # <<>>
  /\ fbLast.op = "pop"
  /\ fbLast.frame # <<>>

----------------------------------------------------------------------------
(* Properties of the detectors, under SpecDetector *)

WasQuery == detLast.op = "get_result"

\* the result a caller sees while the evidence is insufficient
Absent(q) ==
  /\ ~q.result.found
  /\ q.result.confidence = 0
  /\ q.visible.ret = 0 /\ ~q.visible.written

AllScores(d) == SumSeq(d.detection_scores[1]) + SumSeq(d.detection_scores[2])

\* C12: GetDetectionResult returns absent whenever fewer than window_size/2
\* blocks were processed since creation or the last Reset, whatever the score
\* arrays hold.
C12_AbsentBeforeHalfWindow ==
  (WasQuery /\ detHist.blocks < Window(det) \div 2) => Absent(detLast)

C12_Witness ==
  /\ WasQuery
  /\ detHist.blocks >= 1
  /\ detHist.blocks < Window(det) \div 2
  /\ AllScores(det) >= 16 * Unit
  /\ Absent(detLast)

\* C13 as stated: after Reset, polls return absent up to and including the
\* poll after the (window_size/2)-th block processed since.
C13_AbsentAfterReset ==
  (detHist.resets > 0 /\ WasQuery /\ detHist.blocks <= Window(det) \div 2)
    => ~detLast.result.found

\* C13 amended: right after Reset a poll returns absent, whatever the state
\* before, and so does every poll made while fewer than window_size/2 blocks
\* were processed since the Reset.
C13_AbsentAfterResetBelowHalf ==
  detHist.resets > 0 =>
    /\ (detLast.op = "reset" =>
          /\ GetDetectionResult(det) = GetDetectionResult(Detector_new(det.kind, 1, 1))
          /\ ~detector_get_result(det).written)
    /\ ((WasQuery /\ detHist.blocks + 1 <= Window(det) \div 2) => Absent(detLast))

C13_Witness ==
  /\ detHist.resets > 0
  /\ WasQuery
  /\ detHist.blocks = Window(det) \div 2 - 1
  /\ AllScores(det) >= 16 * Unit
  /\ Absent(detLast)

\* the bit seen in each group of frames_per_bit window slots: the hypothesis
\* with the larger accumulated score
ObservedBits(d) ==
  [g \in 1..(Window(d) \div ParamsFramesPerBit) |->
     IF SumSeq([k \in 1..ParamsFramesPerBit |->
                  d.detection_scores[2][(g - 1) * ParamsFramesPerBit + k]])
        > SumSeq([k \in 1..ParamsFramesPerBit |->
                  d.detection_scores[1][(g - 1) * ParamsFramesPerBit + k]])
     THEN 1 ELSE 0]

\* C14: a detection carries the bits actually observed: the bits seen in the
\* window are the leading bits of the message returned.
C14_MessageFromObservedBits ==
  (WasQuery /\ detLast.result.found) =>
    IsPrefix(ObservedBits(det), parse_payload(detLast.result.message))

\* C15: every confidence reported lies in [0, 1].
C15_ConfidenceInUnitInterval ==
  WasQuery =>
    /\ detLast.result.confidence >= 0 /\ detLast.result.confidence <= Unit
    /\ detLast.visible.confidence >= 0 /\ detLast.visible.confidence <= Unit

\* C16: a poll made with enough blocks that finds nothing gives the caller a
\* result different from the one of a poll made with insufficient evidence.
C16_AbsentDistinct ==
  (WasQuery /\ detHist.blocks >= Window(det) \div 2 /\ ~detLast.result.found) =>
    /\ detLast.result # GetDetectionResult(Detector_new(det.kind, 1, 1))
    /\ detLast.visible # detector_get_result(Detector_new(det.kind, 1, 1))

----------------------------------------------------------------------------
(* Properties of the shared detector, under SpecDetectorThreads *)

\* C17: whenever GetDetectionResult runs, every window slot holds the two
\* hypothesis scores of one and the same block.
C17_PollSeesWholeBlocks ==
  detLast.op = "poll" => detLast.tags[1] = detLast.tags[2]

----------------------------------------------------------------------------
(* Properties of the web application, under SpecApp *)

\* C19: a destroyed handle is never passed to the module again: every call
\* that passes a handle passes an Active one, so no processFrame, detectFrame
\* or getDetectionResult follows the destroy of its handle and no handle is
\* destroyed twice; a Destroyed handle stays Destroyed.
C19_NoUseAfterDestroy ==
  /\ appLog.handle # 0 => appLog.state = "Active"
  /\ \A h \in 1..Len(app.handles) :
       app.handles[h] = "Destroyed" => h \notin {app.watermarker, app.detector}

C19_Witness ==
  /\ \E h \in 1..Len(app.handles) : app.handles[h] = "Destroyed"
  /\ app.detector # 0
  /\ app.timers >= 1
  /\ appLog.fn = "getDetectionResult"
  /\ appLog.handle = app.detector

----------------------------------------------------------------------------
(* Properties of the payload codec, under SpecCodec *)

AllPrintable(text) == \A k \in 1..Len(text) : IsPrintable(text[k])

HexDigits == (48..57) \cup (65..70) \cup (97..102)

\* C8 as stated: HexToText(TextToHex(M)) = M for every printable M, the empty
\* string included, for the library functions and the exported ones.
C8_RoundTrip ==
  AllPrintable(cIn) =>
    /\ (cPc = "HexToText.TextToHex" => cOut = cIn)
    /\ (cPc = "hex_to_text.text_to_hex" => cOut = CStr(cIn))
    /\ (cPc = "hex_to_text_simple.text_to_hex_simple" => cOut = CStr(cIn))

\* C8 amended: the round trip holds for every printable M with the library
\* functions and their exports, and for every non-empty printable M with the
\* simple exports, which answer the empty string with a null pointer.
C8_RoundTripNonEmpty ==
  AllPrintable(cIn) =>
    /\ (cPc = "HexToText.TextToHex" => cOut = cIn)
    /\ (cPc = "hex_to_text.text_to_hex" => cOut = CStr(cIn))
    /\ (cPc = "hex_to_text_simple.text_to_hex_simple" =>
          cOut = IF cIn = <<>> THEN NullPtr ELSE CStr(cIn))

C8_Witness ==
  /\ cPc = "hex_to_text_simple.text_to_hex_simple"
  /\ Len(cIn) >= 2
  /\ AllPrintable(cIn)
  /\ cOut = CStr(cIn)

\* C9 as stated: IsValidHexMessage(h) iff h has even length and only hex
\* digits, the empty string included.
C9_ValidIffEvenHex ==
  cPc = "IsValidHexMessage" =>
    (cOut <=> (Len(cIn) % 2 = 0 /\ \A k \in 1..Len(cIn) : cIn[k] \in HexDigits))

\* C9 amended: IsValidHexMessage(h) iff h is not empty, has even length and
\* only hex digits.
C9_ValidIffNonEmptyEvenHex ==
  cPc = "IsValidHexMessage" =>
    (cOut <=> (cIn # <<>> /\ Len(cIn) % 2 = 0
                 /\ \A k \in 1..Len(cIn) : cIn[k] \in HexDigits))

C9_Witness == cPc = "IsValidHexMessage" /\ cOut = TRUE /\ Len(cIn) = 2

\* C10: parse_payload yields no bits for exactly the strings that
\* IsValidHexMessage rejects.
C10_ParseFailsIffInvalid ==
  cPc = "parse_payload" => ((cOut = <<>>) <=> ~IsValidHexMessage(cIn))

\* a string the specification calls valid hex: even length, hex digits only
ValidHex(hex) == Len(hex) % 2 = 0 /\ \A k \in 1..Len(hex) : hex[k] \in HexDigits

\* C11: creating an embedder returns a null handle whenever payload_hex is
\* not valid hex, and no handle to an embedder without payload bits is ever
\* returned.
C11_NullOnInvalidHex ==
  cPc \in {"watermarker_create", "create_simple_watermarker"} =>
    /\ (~ValidHex(cIn) => cOut.null)
    /\ (~cOut.null => cOut.bits # <<>>)

----------------------------------------------------------------------------
(* Properties of the sender of the web application, under SpecSender *)

\* C21: a block played by the sender carries the payload of the message that
\* was in the message input when Start was clicked, on the AudioWorklet path
\* and on the ScriptProcessorNode path
C21_EmbeddedIsEnteredMessage ==
  (sender.embedded.done /\ sender.entered # <<>>) =>
     sender.embedded.bits = hex_to_bits(TextToHex(sender.entered))

----------------------------------------------------------------------------
(* Properties of SimpleWatermarkGen, under SpecWmGen *)

\* the payload position of block b when every bit is held for `held` blocks,
\* positions are visited in order and position 0 follows the last one
RECURSIVE HeldIndex(_, _, _)
HeldIndex(b, held, len) ==
  IF b = 0 THEN 0
  ELSE IF b % held = 0 THEN (HeldIndex(b - 1, held, len) + 1) % len
  ELSE HeldIndex(b - 1, held, len)

\* a block with the carrier of one bit value added, block counter at b
Marked(input_samples, b, bit_value) ==
  [k \in 1..Len(input_samples) |->
     input_samples[k] + Watermark(b, (k - 1) \div config.channels, bit_value, config)]

\* C22: the b-th block since creation or Reset carries the payload bit at
\* position (b / frames_per_bit) % len: every bit is held for frames_per_bit
\* consecutive blocks, bits come in payload order, bit 0 follows the last bit.
C22_BitHeldPerBlock ==
  [][(ret'.kind = "block" /\ hist'.calls = hist.calls + 1) =>
       /\ frame_count' = frame_count + 1
       /\ ret'.out =
            Marked(ret'.input, frame_count,
                   bitvec[HeldIndex(frame_count, ParamsFramesPerBit, Len(bitvec)) + 1])]_vars

C22_Witness ==
  /\ ret.kind = "block"
  /\ frame_count > Len(bitvec) * ParamsFramesPerBit
  /\ HeldIndex(frame_count - 1, ParamsFramesPerBit, Len(bitvec)) = 0
  /\ ret.out # ret.input

\* C24: the carrier phase of the first sample of block b+1 is the phase of the
\* last sample of block b plus one sample's phase step, also where the payload
\* bit and with it the carrier frequency changes (the step of either block is
\* accepted).
C24_PhaseContinuous ==
  (ret.kind = "block" /\ frame_count >= 2) =>
    LET b     == frame_count - 2
        bit_b == bitvec[BitIndex(b, bitvec) + 1]
        bit_n == bitvec[BitIndex(b + 1, bitvec) + 1]
        last  == Phase(b, ParamsFrameSize - 1, bit_b, config)
        first == Phase(b + 1, 0, bit_n, config)
    IN \/ first = (last + PhaseStep(bit_n, config)) % config.sample_rate
       \/ first = (last + PhaseStep(bit_b, config)) % config.sample_rate

----------------------------------------------------------------------------
(* Properties of the block counter and of Reset of the embedder, under Spec *)

\* samples per channel taken in by size-valid calls since creation or Reset
SamplesIn == Len(hist.inAll) \div config.channels

\* C23: after size-valid ProcessFrame calls of any frame sizes totalling N
\* samples per channel since creation or the last Reset, the block counter is
\* floor(N / internal_block_size) and the input staging buffer holds
\* (N mod internal_block_size) * channels samples; the counter grows by one
\* for each block processed and only Reset lowers it.
C23_BlockCount ==
  [][/\ initialized' =>
          /\ frame_count' = SamplesIn' \div ParamsFrameSize
          /\ Len(frame_buffer') = (SamplesIn' % ParamsFrameSize) * config.channels
     /\ (initialized /\ ret'.kind # "reset") =>
          frame_count' = frame_count
             + IF SizeValid(ret')
               THEN (Len(frame_buffer) + Len(ret'.input))
                       \div (ParamsFrameSize * config.channels)
               ELSE 0]_vars

C23_Witness ==
  /\ initialized /\ hist.resets > 0
  /\ WasProcessFrame(ret) /\ SizeValid(ret)
  /\ ret.frame_size < hist.maxFrame
  /\ frame_count >= 1
  /\ frame_buffer # <<>>

\* the last n elements of a sequence
LastN(s, n) == Drop(s, Len(s) - n)

\* C25: Reset zeroes the block counter and empties both staging buffers and
\* leaves the payload bits and the configuration alone, so that the first
\* block after Reset carries payload bit 0; ProcessFrame and Reset never
\* change the payload bits, which stay non-empty and a multiple of 8 long.
C25_ResetKeepsPayload ==
  [][/\ bitvec' = bitvec /\ config' = config
     /\ initialized' => (bitvec' # <<>> /\ Len(bitvec') % 8 = 0)
     /\ (initialized /\ ret'.kind = "reset") =>
          /\ frame_count' = 0
          /\ frame_buffer' = <<>>
          /\ output_buffer' = <<>>
     /\ (initialized /\ hist.resets > 0 /\ frame_count = 0 /\ frame_count' = 1) =>
          LET block == Take(frame_buffer \o ret'.input, ParamsFrameSize * config.channels)
          IN wm_limiter'.buffer =
               LastN(Marked(block, 0, bitvec[1]), wm_limiter.look_ahead)]_vars

C25_Witness ==
  /\ initialized /\ hist.resets > 0
  /\ frame_count = 1
  /\ ret.kind \in {"popped", "zeros"}
  /\ wm_limiter.buffer =
       LastN(Marked(Take(hist.inAll, ParamsFrameSize * config.channels), 0, bitvec[1]),
             wm_limiter.look_ahead)
  /\ Marked(Take(hist.inAll, ParamsFrameSize * config.channels), 0, 0)
       # Marked(Take(hist.inAll, ParamsFrameSize * config.channels), 0, 1)

----------------------------------------------------------------------------
(* Properties of the broadcast step of the Limiter, under SpecLimiter, and of
   its construction by the embedder, under Spec *)

\* C26: after the backward broadcast of Limiter::process every sample of
\* the history above 1.0, at index i, has raised the ceiling at i - j to at
\* least |sample| * (1 - j/look_ahead) + j/look_ahead for every offset j in
\* [0, look_ahead) with i - j >= 0, index 0 included.
C26_BroadcastReachesIndexZero ==
  [][(Len(limIn') > Len(limIn)) =>
       LET buf == limiter.buffer \o limLast'.samples
           mb  == Broadcast(buf,
                            limiter.max_buffer \o [k \in 1..Len(limLast'.samples) |-> Unit],
                            limiter.look_ahead)
       IN \A p \in 1..Len(buf) : \A j \in 0..(limiter.look_ahead - 1) :
            (Abs(buf[p]) > Unit /\ p - j >= 1) =>
               mb[p - j] >= Ramp(Abs(buf[p]), j, limiter.look_ahead)]_vars

\* the least integer not below a / b, for b > 0
CeilDiv(a, b) == (a + b - 1) \div b

\* C27: the limiter of an embedder has look_ahead = ceil(sample_rate * 0.005)
\* samples.
C27_LookAheadIsCeil ==
  initialized => wm_limiter.look_ahead = CeilDiv(config.sample_rate * 5, 1000)

----------------------------------------------------------------------------
(* Properties of the score window of the detector, under SpecDetectorThreads *)

\* the latest of the blocks 1 .. k that maps to window slot s (slots from 1),
\* 0 when there is none
LatestBlock(s, k, window) ==
  IF \E b \in 1..k : (b - 1) % window = s - 1
  THEN CHOOSE b \in 1..k :
         /\ (b - 1) % window = s - 1
         /\ \A c \in 1..k : (c - 1) % window = s - 1 => c <= b
  ELSE 0

\* C28: every block writes both hypothesis scores at slot block_counter mod
\* window_size before the counter advances, so that between blocks each slot
\* of either array holds the score of the latest block mapped to it, never
\* one left by a block window_size or more blocks earlier.
C28_SlotHoldsLatestBlock ==
  audio.pc = "idle" =>
    \A bit \in 1..2 : \A s \in 1..Len(audio.tags[bit]) :
      audio.tags[bit][s] = LatestBlock(s, detHist.blocks, DetectionWindowFrames)

----------------------------------------------------------------------------
(* Properties of the calls of one detector, under SpecDetector *)

\* the samples handed to the last ProcessFrame call did not match frame_size
BadSizeCall(q, d) == q.op = "process_frame" /\ q.len # q.frame_size * d.channels

\* C29: ProcessFrame with len(frame) # frame_size * channels leaves the
\* detector as it was: block counter, both score arrays and the staged
\* samples are the same before and after the call.
C29_BadSizeLeavesDetector ==
  [][(detHist'.calls = detHist.calls + 1 /\ BadSizeCall(detLast', det)) =>
       /\ det'.frames_processed = det.frames_processed
       /\ det'.detection_scores = det.detection_scores
       /\ det'.frame_buffer = det.frame_buffer
       /\ det' = det]_vars

C29_Witness ==
  /\ BadSizeCall(detLast, det)
  /\ det.frames_processed >= 1
  /\ det.frame_buffer # <<>>
  /\ AllScores(det) > 0

\* C30: GetDetectionResult changes nothing in the detector: the block
\* counter, the score arrays and the staged samples are as before, the result
\* is a function of them, and a poll repeated at once gives the same result.
C30_QueryIsPureRead ==
  [][(detHist'.calls = detHist.calls + 1 /\ detLast'.op = "get_result") =>
       /\ det' = det
       /\ detLast'.result = GetDetectionResult(det)
       /\ detLast'.visible = detector_get_result(det)
       /\ WasQuery => (detLast'.result = detLast.result /\ detLast'.visible = detLast.visible)]_vars

C30_Witness ==
  /\ WasQuery
  /\ detLast.result.found
  /\ det.frames_processed >= 2
  /\ det.frame_buffer # <<>>

----------------------------------------------------------------------------
(* C31: with one frame_size used by every size-valid ProcessFrame call since
   creation or Reset, a call that follows a call which returned samples
   popped from the output buffer returns popped samples too, never the block
   of zeros of an underrun *)
C31_SilenceOnlyAtStartup ==
  [][(/\ initialized
      /\ ret.kind = "popped"
      /\ hist'.calls = hist.calls + 1
      /\ WasProcessFrame(ret') /\ SizeValid(ret')
      /\ hist'.sizes = {ret'.frame_size})
        => ret'.kind = "popped"]_vars

----------------------------------------------------------------------------
\* a string of 2k hexadecimal digits, k >= 0
IsHexString(hex) == Len(hex) % 2 = 0 /\ AllXDigit(hex)

\* byte m (from 0) of a hex string, and the 8k bits it stands for
ByteOf(hex, m) == 16 * HexVal(hex[2 * m + 1]) + HexVal(hex[2 * m + 2])

PayloadBitsOf(hex) ==
  [n \in 1..(4 * Len(hex)) |->
     (ByteOf(hex, (n - 1) \div 8) \div (2 ^ (7 - ((n - 1) % 8)))) % 2]

(* C32: for a string of 2k hexadecimal digits parse_payload yields 8k bits,
   bits 8m..8m+7 being the binary digits of byte m from the most significant
   one, and the library embedder and the simple embedder both hold exactly
   this bit sequence *)
C32_PayloadBitsMsbFirst ==
  IsHexString(cIn) =>
    /\ (cPc = "parse_payload" => cOut = PayloadBitsOf(cIn))
    /\ (cPc = "watermarker_create" => cOut.bits = PayloadBitsOf(cIn))
    /\ (cPc = "create_simple_watermarker" => cOut.bits = PayloadBitsOf(cIn))

\* "1a0F" taken in by the simple embedder: 0001 1010 0000 1111
C32_Witness ==
  /\ cPc = "create_simple_watermarker"
  /\ cIn = <<49, 97, 48, 70>>
  /\ cOut.bits = <<0,0,0,1, 1,0,1,0, 0,0,0,0, 1,1,1,1>>

----------------------------------------------------------------------------
(* C33: for every input that is not a string of 2k hexadecimal digits (odd
   length, or a character that is not a hexadecimal digit at any position)
   HexToText returns its error outcome, the empty string, and
   hex_to_text_simple returns null: no text is decoded *)
C33_NoTextFromInvalidHex ==
  ~IsHexString(cIn) =>
    /\ (cPc = "HexToText" => cOut = <<>>)
    /\ (cPc = "hex_to_text_simple" => cOut.null)

----------------------------------------------------------------------------
(* Handles of the web application, under SpecApp *)

\* the handles of one kind that were created and not destroyed
LiveHandles(a, kind) ==
  {h \in 1..Len(a.handles) : a.made[h] = kind /\ a.handles[h] = "Active"}

(* C34: at most one watermarker and at most one detector is live at any time,
   and every live handle is the one the application holds, so that Stop can
   still destroy it: none is leaked, whether audio setup failed after the
   create or Start ran again before the previous start completed *)
C34_OneLiveHandlePerKind ==
  /\ Cardinality(LiveHandles(app, "watermarker")) <= 1
  /\ Cardinality(LiveHandles(app, "detector")) <= 1
  /\ LiveHandles(app, "watermarker") \subseteq {app.watermarker}
  /\ LiveHandles(app, "detector") \subseteq {app.detector}

(* C36: at most one chain of detection polling timers is active at any time:
   the chain started for one receiver session ends once that session is
   stopped, whenever stopReceiver and the next startReceiver happen *)
C36_OnePollingChain == app.timers <= 1

----------------------------------------------------------------------------
(* The AudioWorklet processors, under SpecProcessor *)

(* C35: once 'destroy' has been handled and no 'init' was posted after it,
   the processor holds no watermarker or detector handle and no buffer, its
   initialized flag is false and process() does not call into the module,
   whatever init was still in flight when 'destroy' was handled *)
C35_DestroyIsFinal ==
  processor.final =>
    /\ ~processor.initialized
    /\ processor.handle = 0
    /\ ~processor.buffers
    /\ processor.lastCall # "wasm"

----------------------------------------------------------------------------
(* The gain of the Limiter, under SpecLimiter *)

\* the input sample that the k-th sample of the last call's output came from
EmittedInput(k) == limIn[Len(limOut) - Len(limLast.out) + k]

(* C37: each sample is emitted with maximum >= its max_buffer entry >= 1.0,
   maximum is at least 1.0 in every state, and no emitted sample is larger in
   magnitude than the input sample it came from *)
C37_NeverAmplifies ==
  /\ limiter.maximum >= Unit
  /\ Len(limLast.gains) = Len(limLast.out)
  /\ Len(limLast.ceilings) = Len(limLast.out)
  /\ \A k \in 1..Len(limLast.out) :
       /\ limLast.gains[k] >= limLast.ceilings[k]
       /\ limLast.ceilings[k] >= Unit
       /\ Abs(limLast.out[k]) <= Abs(EmittedInput(k))
  /\ Len(limOut) <= Len(limIn)
  /\ \A i \in 1..Len(limOut) : Abs(limOut[i]) <= Abs(limIn[i])

\* a sample above 1.0 emitted attenuated by exactly its own ceiling, after a
\* sample with a lower ceiling
C37_Witness ==
  \E k \in 2..Len(limLast.out) :
     /\ limLast.ceilings[k] > Unit
     /\ limLast.ceilings[k - 1] < limLast.ceilings[k]
     /\ limLast.gains[k] = limLast.ceilings[k]
     /\ Abs(limLast.out[k]) < Abs(EmittedInput(k))

----------------------------------------------------------------------------
(* The pops of the FrameBuffer, under SpecFrameBuffer *)

(* C38: pop_frame(n) with fewer than n*channels samples buffered returns an
   empty frame and leaves the buffer as it was, contents and order; with at
   least n*channels buffered it returns and removes exactly the first
   n*channels samples *)
C38_PopWholeBlockOrNothing ==
  fbLast.op = "pop" =>
    LET samples_needed == fbN * fb.channels
    IN IF Len(fbLast.before) < samples_needed
       THEN fbLast.frame = <<>> /\ fb.buffer = fbLast.before
       ELSE /\ fbLast.frame = SubSeq(fbLast.before, 1, samples_needed)
            /\ fb.buffer = SubSeq(fbLast.before, samples_needed + 1, Len(fbLast.before))

\* a pop refused with a partial block of two channels buffered
C38_Witness ==
  /\ fbLast.op = "pop"
  /\ fb.channels = 2
  /\ fbN = 2
  /\ Len(fbLast.before) = fbN * fb.channels - 1
  /\ fbLast.frame = <<>>
  /\ fb.buffer = fbLast.before

====
